---------------------------- MODULE Spec2Model ----------------------------
(***************************************************************************)
(* AFEcrypt (ai_encryptor_plus): the chunked AES-CTR engine, the            *)
(* whole-file engine and the key vault, as state machines over byte         *)
(* sequences.                                                               *)
(*                                                                          *)
(* Files are sequences of bytes (0..255); a path that does not exist is     *)
(* NoFile.  AES is a keyed permutation of 16-byte blocks (a two-round       *)
(* Feistel network over bytes): like AES it is invertible under the right   *)
(* key and yields some other block under any other key.  SHA-256 and        *)
(* HMAC-SHA256 are collision-free constructors.                             *)
(***************************************************************************)
EXTENDS Integers, Sequences, FiniteSets, TLC

(***************************************************************************)
(* Bounds of the model.                                                     *)
(***************************************************************************)
MaxFileLen == 4
MaxChunkSize == 3

(***************************************************************************)
(* Program constants.                                                       *)
(***************************************************************************)
HEADER_MAGIC == <<67, 84, 82, 67, 72>>
HEADER_SIZE == 29
LEN_PREFIX_SIZE == 8
AES_BLOCK == 16
KEY_LEN == 32

\* A path: whether a file is there, and its bytes.
NoFile == [exists |-> FALSE, data |-> <<>>]
File(bytes) == [exists |-> TRUE, data |-> bytes]

\* An entry of [None] * chunk_count that no result has filled.
NoMac == <<>>

Bytes == 0..255

\* The plaintext files of the model: every length up to MaxFileLen, with
\* bytes that differ from position to position.
PlainSeeds == {1, 37}
PlainFile(n, seed) == [p \in 1..n |-> (seed * p) % 256]

Min(a, b) == IF a < b THEN a ELSE b

(***************************************************************************)
(* Byte-level helpers.                                                      *)
(***************************************************************************)
Bit(a, i) == (a \div (2 ^ i)) % 2

\* XOR of two bytes, bit by bit.
Xor(a, b) ==
    ((Bit(a, 0) + Bit(b, 0)) % 2)
  + 2 * ((Bit(a, 1) + Bit(b, 1)) % 2)
  + 4 * ((Bit(a, 2) + Bit(b, 2)) % 2)
  + 8 * ((Bit(a, 3) + Bit(b, 3)) % 2)
  + 16 * ((Bit(a, 4) + Bit(b, 4)) % 2)
  + 32 * ((Bit(a, 5) + Bit(b, 5)) % 2)
  + 64 * ((Bit(a, 6) + Bit(b, 6)) % 2)
  + 128 * ((Bit(a, 7) + Bit(b, 7)) % 2)

XorSeq(s, t) == SubSeq([j \in 1..Len(s) |-> Xor(s[j], t[j])], 1, Len(s))

\* int.to_bytes(8, "big") for 0 <= n < 2^31: the four high bytes are zero.
ByteOf(n, e) == IF e >= 4 THEN 0 ELSE (n \div (256 ^ e)) % 256

U64BE(n) == [k \in 1..8 |-> ByteOf(n, 8 - k)]

\* int.from_bytes(b, "big") for any length of b (a short read gives fewer bytes).
RECURSIVE FromBytesBE(_)
FromBytesBE(b) ==
  IF Len(b) = 0 THEN 0
  ELSE 256 * FromBytesBE(SubSeq(b, 1, Len(b) - 1)) + b[Len(b)]

\* bytes.hex() and bytes.fromhex(): two hex digits (0..15) per byte.
Hex(b) == [k \in 1..(2 * Len(b)) |->
             IF k % 2 = 1 THEN b[(k + 1) \div 2] \div 16 ELSE b[k \div 2] % 16]

FromHex(h) == [k \in 1..(Len(h) \div 2) |-> 16 * h[2 * k - 1] + h[2 * k]]

\* f.seek(pos); f.write(data) on a file opened for writing: a seek past the
\* end leaves a hole that reads as zeros.
WriteAt(file, pos, data) ==
  LET end == IF pos + Len(data) > Len(file) THEN pos + Len(data) ELSE Len(file)
  IN [p \in 1..end |->
        IF p > pos /\ p <= pos + Len(data) THEN data[p - pos]
        ELSE IF p <= Len(file) THEN file[p]
        ELSE 0]

\* f.seek(pos); f.read(n): what is there, possibly fewer than n bytes.
ReadAt(file, pos, n) == SubSeq(file, pos + 1, Min(pos + n, Len(file)))

(***************************************************************************)
(* Cryptographic primitives.                                                *)
(***************************************************************************)
RECURSIVE DigestTo(_, _)
DigestTo(s, n) ==
  IF n = 0 THEN 7
  ELSE (DigestTo(s, n - 1) * 31 + s[n] + n) % 251

Digest(s) == DigestTo(s, Len(s))

Rnd(kd, hd, j) == (kd * 17 + hd * 29 + j * 7 + 3) % 256

ValidAESKey(k) == Len(k) \in {16, 24, 32}

AESEnc(k, B) ==
  LET kd == Digest(k)
      R  == SubSeq(B, 9, 16)
      rd == Digest(R)
      L2 == SubSeq([j \in 1..8 |-> (B[j] + Rnd(kd, rd, j)) % 256], 1, 8)
      ld == Digest(L2)
      R2 == [j \in 1..8 |-> (R[j] + Rnd(kd, ld, j + 8)) % 256]
  IN L2 \o R2

AESDec(k, C) ==
  LET kd == Digest(k)
      L2 == SubSeq(C, 1, 8)
      ld == Digest(L2)
      R  == SubSeq([j \in 1..8 |-> (C[j + 8] + 256 - Rnd(kd, ld, j + 8)) % 256], 1, 8)
      rd == Digest(R)
      L  == [j \in 1..8 |-> (L2[j] + 256 - Rnd(kd, rd, j)) % 256]
  IN L \o R

\* The CTR counter block: the 16-byte nonce as a big-endian integer plus n.
RECURSIVE CtrAdd(_, _)
CtrAdd(block, n) ==
  IF Len(block) = 0 \/ n = 0 THEN block
  ELSE LET last == block[Len(block)] + n
       IN Append(CtrAdd(SubSeq(block, 1, Len(block) - 1), last \div 256), last % 256)

\* Cipher(algorithms.AES(key), modes.CTR(nonce)): update(data) + finalize().
\* Encryption and decryption are the same XOR with the keystream.
RECURSIVE KeyStream(_, _, _, _)
KeyStream(k, nonce16, b, nblocks) ==
  IF b >= nblocks THEN <<>>
  ELSE AESEnc(k, CtrAdd(nonce16, b)) \o KeyStream(k, nonce16, b + 1, nblocks)

AesCtr(k, nonce16, data) ==
  LET ks == KeyStream(k, nonce16, 0, (Len(data) + AES_BLOCK - 1) \div AES_BLOCK)
  IN SubSeq([p \in 1..Len(data) |-> Xor(data[p], ks[p])], 1, Len(data))

Sha256(data) == <<"sha256", data>>
HmacSha256(k, data) == <<"hmac", k, data>>

\* padding.PKCS7(128)
Pkcs7Pad(data) ==
  LET v == AES_BLOCK - (Len(data) % AES_BLOCK)
  IN data \o SubSeq([j \in 1..v |-> v], 1, v)

Pkcs7Valid(padded) ==
  /\ Len(padded) > 0
  /\ Len(padded) % AES_BLOCK = 0
  /\ LET v == padded[Len(padded)]
     IN /\ v \in 1..AES_BLOCK
        /\ \A j \in (Len(padded) - v + 1)..Len(padded) : padded[j] = v

Pkcs7Unpad(padded) == SubSeq(padded, 1, Len(padded) - padded[Len(padded)])

BlockAt(s, i) == SubSeq(s, (i - 1) * AES_BLOCK + 1, i * AES_BLOCK)

RECURSIVE CbcEncBlocks(_, _, _, _)
CbcEncBlocks(k, prev, padded, i) ==
  IF i > Len(padded) \div AES_BLOCK THEN <<>>
  ELSE LET c == AESEnc(k, XorSeq(BlockAt(padded, i), prev))
       IN c \o CbcEncBlocks(k, c, padded, i + 1)

RECURSIVE CbcDecBlocks(_, _, _, _)
CbcDecBlocks(k, prev, ct, i) ==
  IF i > Len(ct) \div AES_BLOCK THEN <<>>
  ELSE XorSeq(AESDec(k, BlockAt(ct, i)), prev)
         \o CbcDecBlocks(k, BlockAt(ct, i), ct, i + 1)

(***************************************************************************)
(* Key vault (key_vault.py).  A master secret is its UTF-8 bytes; the empty *)
(* string is falsy in Python.  created_at is not modelled: nothing reads it.*)
(***************************************************************************)
KeyIds == {"k1", "k2"}
Masters == {<<>>, <<97>>, <<98>>, <<100>>}
\* gen_key(): the file keys the model draws.
KEY_A == [j \in 1..KEY_LEN |-> 1]
KEY_B == [j \in 1..KEY_LEN |-> (7 * j) % 256]
RawKeys == {KEY_A, KEY_B}
\* secrets.token_bytes(16): the values the model draws.
Salts == {[j \in 1..16 |-> 0]}
IVs == {[j \in 1..16 |-> 0]}

NoRecord == [present |-> FALSE, salt |-> <<>>, iv |-> <<>>, wrapped_key |-> <<>>, mode |-> ""]

_kdf(master, salt) ==
  LET md == Digest(master)
      sd == Digest(salt)
  IN SubSeq([j \in 1..KEY_LEN |-> (md * 13 + sd * 7 + j * 5) % 256], 1, KEY_LEN)

_aes_cbc_encrypt(k, iv, pt) == CbcEncBlocks(k, iv, Pkcs7Pad(pt), 1)

\* The unpadder raises ValueError on invalid padding; nothing else checks the
\* decrypted bytes.
_aes_cbc_decrypt(k, iv, ct) ==
  LET padded == CbcDecBlocks(k, iv, ct, 1)
  IN IF Pkcs7Valid(padded)
     THEN [err |-> "", value |-> Pkcs7Unpad(padded)]
     ELSE [err |-> "ValueError: invalid padding", value |-> <<>>]

\* store_key: init() creates the table, then it raises on an empty master,
\* else REPLACE INTO keys.
store_key_raises(master_secret) == master_secret = <<>>

\* A store that keeps the record an id already has.
store_key_keep_first(v, key_id, raw_key, mode, master_secret, salt, iv) ==
  IF store_key_raises(master_secret) \/ v[key_id].present THEN v
  ELSE [v EXCEPT ![key_id] =
          [present |-> TRUE, salt |-> salt, iv |-> iv,
           wrapped_key |-> _aes_cbc_encrypt(_kdf(master_secret, salt), iv, raw_key),
           mode |-> mode]]

store_key(v, key_id, raw_key, mode, master_secret, salt, iv) ==
  IF store_key_raises(master_secret) THEN v
  ELSE [v EXCEPT ![key_id] =
          [present |-> TRUE, salt |-> salt, iv |-> iv,
           wrapped_key |-> _aes_cbc_encrypt(_kdf(master_secret, salt), iv, raw_key),
           mode |-> mode]]

\* load_key: the (raw, mode) it returns, or the exception it raises.  It does
\* not call init(): the SELECT raises when the table was never created.
load_key(sch, v, key_id, master_secret) ==
  IF master_secret = <<>>
  THEN [err |-> "ValueError: master secret required", raw |-> <<>>, mode |-> ""]
  ELSE IF ~sch
  THEN [err |-> "sqlite3.OperationalError: no such table", raw |-> <<>>, mode |-> ""]
  ELSE IF ~v[key_id].present
  THEN [err |-> "KeyError", raw |-> <<>>, mode |-> ""]
  ELSE LET row == v[key_id]
           dec == _aes_cbc_decrypt(_kdf(master_secret, row.salt), row.iv, row.wrapped_key)
       IN IF dec.err # ""
          THEN [err |-> dec.err, raw |-> <<>>, mode |-> ""]
          ELSE [err |-> "", raw |-> dec.value, mode |-> row.mode]

(***************************************************************************)
(* Chunked CTR engine (chunked_ctr.py).                                     *)
(***************************************************************************)
VARIABLES
  src,          \* the plaintext file (bytes)
  chunk_size,   \* encrypt_file_chunked's chunk_size
  key,          \* the file key
  master,       \* master secret given to encrypt
  base_nonce,   \* drawn by _derive_base_nonce
  enc_pc,       \* position of encrypt_file_chunked
  enc_pending,  \* indices whose future has not been taken from as_completed
  tmp,          \* <dst>.tmp
  chunk_hmacs,  \* the list chunk_hmacs
  dst,          \* the ciphertext path
  manifest,     \* <dst>.meta.json
  vault,        \* table keys of the vault
  schema,       \* the table keys exists in the vault database
  dst_before,   \* history: the ciphertext path when encrypt was called
  enc_err,      \* the exception encrypt_file_chunked raised to its caller
  gc_enabled,   \* gc.disable() / gc.enable()
  enc_ooo,      \* history: a result was taken while a lower index was pending
  enc_nonce,    \* history: the nonce each encrypt worker used
  tamper,       \* what was changed on disk between encrypt and decrypt
  dec_master,   \* master secret given to decrypt
  dec_pc,       \* position of decrypt_file_chunked
  dec_err,      \* the exception decrypt raised
  dec_key,      \* key returned by load_key
  chunks_data,  \* ciphertexts read sequentially
  dec_pending,  \* indices whose decrypt future has not been taken
  out_tmp,      \* <out_path>.tmp
  out_path,     \* the plaintext output path
  out_before,   \* history: out_path when decrypt was called
  dec_ooo,      \* history: a decrypt result was taken out of index order
  dec_nonce     \* history: the nonce each decrypt worker used

cvars == <<src, chunk_size, key, master, base_nonce, enc_pc, enc_pending, tmp,
           chunk_hmacs, dst, manifest, vault, schema, dst_before, enc_err,
           gc_enabled, enc_ooo, enc_nonce,
           tamper, dec_master, dec_pc, dec_err, dec_key, chunks_data,
           dec_pending, out_tmp, out_path, out_before, dec_ooo, dec_nonce>>

cvars_novault ==
  <<src, chunk_size, key, master, base_nonce, enc_pc, enc_pending, tmp,
    chunk_hmacs, dst, manifest, dst_before, enc_err, gc_enabled, enc_ooo,
    enc_nonce, tamper, dec_master, dec_pc, dec_err, dec_key, chunks_data,
    dec_pending, out_tmp, out_path, out_before, dec_ooo, dec_nonce>>

encvars == <<src, chunk_size, key, master, base_nonce, enc_pc, enc_pending, tmp,
             chunk_hmacs, dst, manifest, vault, schema, dst_before, enc_err,
             gc_enabled, enc_ooo, enc_nonce>>

decvars == <<dec_master, dec_pc, dec_err, dec_key, chunks_data, dec_pending,
             out_tmp, out_path, out_before, dec_ooo, dec_nonce>>

(***************************************************************************)
(* State of the whole-file engine (encryptor.py, decryptor.py) and of the   *)
(* vault's own operations (key_vault.py).                                   *)
(***************************************************************************)
VARIABLES
  w_src,        \* the plaintext file
  w_mode,       \* mode given to encrypt_stream
  w_key,        \* the file key
  w_master,     \* master secret given to encrypt_stream
  w_block,      \* encrypt_stream's chunk_size_bytes
  w_pc,         \* "init", "encrypted", "enc_failed", "decrypted", "dec_failed"
  w_enc,        \* the ciphertext path
  w_meta,       \* <out>.meta.json
  w_dec_master, \* master secret given to decrypt_file
  w_out,        \* decrypt_file's output path
  w_err,        \* the exception raised
  w_archive,    \* the archive run_encrypt builds from the output directory
  v_op,         \* the last vault call and what it returned or raised
  v_stored      \* history: per id, the arguments of the last store that succeeded

wvars == <<w_src, w_mode, w_key, w_master, w_block, w_pc, w_enc, w_meta,
           w_dec_master, w_out, w_err, w_archive>>

vvars == <<v_op, v_stored>>

(***************************************************************************)
(* State of the planner: the predictor's rates (adaptive_predictor.py), the *)
(* scheduler's plan (scheduler_plus.py) and the elastic chunk size          *)
(* (cli_plus.py).                                                           *)
(***************************************************************************)
VARIABLES
  type_rate,    \* AdaptivePredictor.type_rate: suffix -> rate
  pr_pc,        \* "off", "on"
  pr_count,     \* number of observe calls so far
  pr_last,      \* history: the last observe call, the rate before it and the
                \* rate it observed
  rate_bps,     \* self.rate_bps, the rate estimated at construction
  pr_seen,      \* history: the suffixes observe was called with
  pl_files,     \* the list given to plan: entries [path, size, suffix]
  pl_plan,      \* the list of tasks plan returned
  pl_pc,        \* "off", "init", "planned"
  el_size,      \* file_size given to _calculate_elastic_chunk_size
  el_workers,   \* workers given to it
  el_chunk,     \* what it returned
  el_pc         \* "off", "init", "done"

pvars == <<type_rate, pr_pc, pr_count, pr_last, rate_bps, pr_seen, pl_files, pl_plan, pl_pc,
           el_size, el_workers, el_chunk, el_pc>>

(***************************************************************************)
(* State of the driver (cli_plus.py): one run of run_encrypt in detail, the  *)
(* sequence of runs with their key ids, and the lazy initialisation of the  *)
(* web application (app.py).                                                *)
(***************************************************************************)
VARIABLES
  dr_mode,      \* run_encrypt's mode
  dr_policy,    \* run_encrypt's policy
  dr_workers,   \* run_encrypt's workers
  dr_files,     \* the files found under in_dir: entries [path, size, suffix]
  dr_plan,      \* the list plan
  dr_small,     \* the list small_tasks
  dr_big,       \* the big tasks not yet encrypted
  dr_futures,   \* paths whose future was not yet taken from as_completed
  dr_log,       \* history: the engine calls made, in order, with their outcome
  dr_outdir,    \* out_dir: path -> what is at <path>.enc
  dr_archive,   \* the archive make_archive returned
  dr_pc,        \* position of run_encrypt
  clock,        \* int(time.time())
  run_log,      \* history: the runs made: [in_dir, mode, out_dir, key_id, key]
  run_vault,    \* the vault across runs: key_id -> file key stored
  run_outdirs,  \* out_dir -> the key_id and key of the ciphertexts in it
  GLOBAL_POOL,  \* app.GLOBAL_POOL: 0 for None, or the pool's number
  lock_holder,  \* the thread inside with _SYSTEM_LOCK, or 0
  th_pc,        \* per thread: position in ensure_system_ready
  th_pool,      \* per thread: the pool it constructed and has not yet stored
  tuning,       \* the threads inside tune_short
  tune_runs,    \* history: number of calls of tune_short
  pools,        \* history: number of ProcessPoolExecutor objects created
  GLOBAL_SCHEDULER,  \* app.GLOBAL_SCHEDULER: 0 for None, or 1
  BEST_WORKERS,      \* app.BEST_WORKERS
  BEST_CHUNK_SIZE,   \* app.BEST_CHUNK_SIZE
  tune_result        \* history: what tune_short gave

drvars == <<dr_mode, dr_policy, dr_workers, dr_files, dr_plan, dr_small, dr_big,
            dr_futures, dr_log, dr_outdir, dr_archive, dr_pc>>

runvars == <<clock, run_log, run_vault, run_outdirs>>

appvars == <<GLOBAL_POOL, lock_holder, th_pc, th_pool, tuning, tune_runs, pools,
             GLOBAL_SCHEDULER, BEST_WORKERS, BEST_CHUNK_SIZE, tune_result>>

(***************************************************************************)
(* The CTR counter blocks the chunk workers of one chunked encryption use.  *)
(***************************************************************************)
VARIABLES
  ks_size,      \* size of the file run_encrypt gives to encrypt_file_chunked
  ks_workers,   \* workers of the run
  ks_nonce,     \* base_nonce of the call
  ks_chunk,     \* chunk_size of the call
  ks_used,      \* per chunk index whose worker ran: the counter blocks of its
                \* first blocks, in order
  ks_pc         \* "off", "init", "running"

ksvars == <<ks_size, ks_workers, ks_nonce, ks_chunk, ks_used, ks_pc>>

(***************************************************************************)
(* run_decrypt on a pool it was given (cli_plus.py 140-184).                *)
(***************************************************************************)
VARIABLES
  rd_kind,      \* the executor given: "process" or "thread" pool; "" when off
  rd_W,         \* max_workers of that pool
  rd_files,     \* the .enc files found: "chunked" or "whole" per file
  rd_next,      \* the next file of the submit loop
  rd_queue,     \* the pool's work queue, first in first out
  rd_worker,    \* worker -> the work item it runs, or Idle
  rd_fstate,    \* per file, its future: "none", "queued", "running",
                \* "waiting", "done", "failed"
  rd_got,       \* per file: chunk futures that are done
  rd_pc         \* "off", "submit", "collect", "done"

rdvars == <<rd_kind, rd_W, rd_files, rd_next, rd_queue, rd_worker, rd_fstate, rd_got,
            rd_pc>>

dvars == <<drvars, runvars, appvars, ksvars, rdvars>>

KEY_ID == "k1"
AUTH_LABEL == <<97, 117, 116, 104, 95, 107, 101, 121>>
BaseNonces == {[j \in 1..16 |-> 0], [j \in 1..16 |-> 16 * j - 1]}
PlainFiles == {PlainFile(n, seed) : n \in 0..MaxFileLen, seed \in PlainSeeds}
ChunkSizes == 1..MaxChunkSize

NoManifest ==
  [exists |-> FALSE, mode |-> "", base_nonce |-> <<>>, chunk_size |-> 0,
   chunk_count |-> 0, key_id |-> "", chunk_hmacs |-> <<>>, version |-> 0]

\* A nonce that ignores the chunk index.
_chunk_nonce_base_only(bn, idx) == bn

_chunk_nonce(bn, idx) == SubSeq(bn, 1, 8) \o U64BE(idx)

_derive_auth_key(aes_key) == Sha256(aes_key \o AUTH_LABEL)

\* A chunk count that rounds down.
ChunkCount_floor(filesize, cs) ==
  IF cs > 0 THEN filesize \div cs ELSE 1

\* math.ceil(filesize / chunk_size) if chunk_size > 0 else 1
ChunkCount(filesize, cs) ==
  IF cs > 0 THEN (filesize + cs - 1) \div cs ELSE 1

TaskOffset(idx, cs) == idx * cs
TaskLength(idx, cs, filesize) == Min(cs, filesize - TaskOffset(idx, cs))

\* _worker_encrypt_chunk_mmap: mm[offset : offset + length] under the chunk nonce.
_worker_encrypt_chunk_mmap(k, bn, idx, data, offset, length) ==
  AesCtr(k, _chunk_nonce(bn, idx), SubSeq(data, offset + 1, Min(offset + length, Len(data))))

_worker_decrypt_chunk(k, bn, idx, ct) == AesCtr(k, _chunk_nonce(bn, idx), ct)

\* A write position whose stride leaves no room for the length prefix.
WritePos_no_prefix(idx, cs) == HEADER_SIZE + (idx * cs)

\* write_pos = HEADER_SIZE + (idx * (LEN_PREFIX_SIZE + chunk_size))
WritePos(idx, cs) == HEADER_SIZE + (idx * (LEN_PREFIX_SIZE + cs))

\* Tags kept in the order the results arrive: the first unset entry is filled.
StoreHmac_arrival(hmacs, idx, mac) ==
  LET k == CHOOSE i \in 1..Len(hmacs) :
             hmacs[i] = NoMac /\ \A j \in 1..(i - 1) : hmacs[j] # NoMac
  IN [hmacs EXCEPT ![k] = mac]

\* chunk_hmacs[idx] = mac
StoreHmac(hmacs, idx, mac) == [hmacs EXCEPT ![idx + 1] = mac]

\* out.seek(idx * chunk_size)
PlainPos(idx, cs) == idx * cs

Header(bn, cs) == HEADER_MAGIC \o bn \o U64BE(cs)

CInitCommon ==
  /\ src \in PlainFiles
  /\ chunk_size \in ChunkSizes
  /\ key \in RawKeys
  /\ master \in Masters
  /\ base_nonce = <<>>
  /\ enc_pc = "init"
  /\ enc_pending = {}
  /\ tmp = NoFile
  /\ chunk_hmacs = <<>>
  /\ manifest = NoManifest
  /\ vault = [id \in KeyIds |-> NoRecord]
  /\ schema = FALSE
  /\ enc_err = ""
  /\ gc_enabled = TRUE
  /\ enc_ooo = FALSE
  /\ enc_nonce = <<>>
  /\ tamper = "none"
  /\ dec_master = <<>>
  /\ dec_pc = "idle"
  /\ dec_err = ""
  /\ dec_key = <<>>
  /\ chunks_data = <<>>
  /\ dec_pending = {}
  /\ out_tmp = NoFile
  /\ out_path = NoFile
  /\ out_before = NoFile
  /\ dec_ooo = FALSE
  /\ dec_nonce = <<>>

\* Nothing is at the ciphertext path when encrypt is called.
CInit ==
  /\ CInitCommon
  /\ dst = NoFile
  /\ dst_before = NoFile

\* encrypt_file_chunked, lines 59-109: plan the tasks, submit them, disable
\* gc, open the temp file and write the header.
EncStart ==
  /\ enc_pc = "init"
  /\ \E bn \in BaseNonces :
       /\ base_nonce' = bn
       /\ tmp' = File(Header(bn, chunk_size))
  /\ LET n == ChunkCount(Len(src), chunk_size)
     IN /\ enc_pending' = 0..(n - 1)
        /\ chunk_hmacs' = [i \in 1..n |-> NoMac]
        /\ enc_nonce' = [i \in 1..n |-> <<>>]
  /\ gc_enabled' = FALSE
  /\ enc_pc' = "draining"
  /\ UNCHANGED <<dst_before, enc_err, src, chunk_size, key, master, dst, manifest, vault, schema, enc_ooo,
                 tamper>>
  /\ UNCHANGED decvars
  /\ UNCHANGED <<wvars, vvars, pvars, dvars>>

\* One turn of the loop over as_completed(futures), lines 112-138: any
\* pending future may be the next to complete.
EncDrain ==
  /\ enc_pc = "draining"
  /\ \E idx \in enc_pending :
       LET offset == TaskOffset(idx, chunk_size)
           length == TaskLength(idx, chunk_size, Len(src))
           ct  == _worker_encrypt_chunk_mmap(key, base_nonce, idx, src, offset, length)
           mac == HmacSha256(_derive_auth_key(key), ct)
       IN /\ chunk_hmacs' = StoreHmac(chunk_hmacs, idx, mac)
          /\ tmp' = File(WriteAt(tmp.data, WritePos(idx, chunk_size),
                                 U64BE(Len(ct)) \o ct))
          /\ enc_pending' = enc_pending \ {idx}
          /\ enc_ooo' = (enc_ooo \/ \E j \in enc_pending : j < idx)
          /\ enc_nonce' = [enc_nonce EXCEPT ![idx + 1] = _chunk_nonce(base_nonce, idx)]
  /\ UNCHANGED <<dst_before, enc_err, src, chunk_size, key, master, base_nonce, enc_pc, dst, manifest,
                 vault, schema, gc_enabled, tamper>>
  /\ UNCHANGED decvars
  /\ UNCHANGED <<wvars, vvars, pvars, dvars>>

\* A loop that may end while futures are pending.
LoopExhausted_early(pending) == TRUE

\* for fut in as_completed(futures), line 112: the loop ends when every
\* future has been taken.
LoopExhausted(pending) == pending = {}

\* The loop is exhausted: the with block closes the file, finally re-enables
\* gc (lines 140-143).
EncDrained ==
  /\ enc_pc = "draining"
  /\ LoopExhausted(enc_pending)
  /\ gc_enabled' = TRUE
  /\ enc_pc' = "drained"
  /\ UNCHANGED <<dst_before, enc_err, src, chunk_size, key, master, base_nonce, enc_pending, tmp,
                 chunk_hmacs, dst, manifest, vault, schema, enc_ooo, enc_nonce, tamper>>
  /\ UNCHANGED decvars
  /\ UNCHANGED <<wvars, vvars, pvars, dvars>>

\* A destination that moves the temp file into place whatever happened.
DstAfterFailure_replace(tmpfile, dstfile) == tmpfile

\* What is at the destination path once the drain loop has raised: the
\* exception leaves the try block through finally (lines 140-143) and the
\* os.replace of line 146 is never reached.
DstAfterFailure(tmpfile, dstfile) == dstfile

\* An exit by exception that leaves gc as it was.
GcOnError_unchanged(enabled) == enabled

\* finally: gc.enable(), lines 140-141, when the try block is left by an
\* exception.
GcOnError(enabled) == TRUE

\* fut.result() raises at line 113: the worker of a result not yet taken
\* raised.  Nothing removes the temp file.
EncWorkerFail ==
  /\ enc_pc = "draining"
  /\ enc_pending # {}
  /\ enc_pc' = "failed"
  /\ enc_err' = "worker exception"
  /\ gc_enabled' = GcOnError(gc_enabled)
  /\ dst' = DstAfterFailure(tmp, dst)
  /\ UNCHANGED <<dst_before, src, chunk_size, key, master, base_nonce, enc_pending,
                 tmp, chunk_hmacs, manifest, vault, schema, enc_ooo, enc_nonce,
                 tamper>>
  /\ UNCHANGED decvars
  /\ UNCHANGED <<wvars, vvars, pvars, dvars>>

\* How much of a record reached the temp file when a write raised: nothing,
\* or the length prefix alone.
WriteCuts == {0, LEN_PREFIX_SIZE}

\* out.seek or out.write raises at lines 133-135, after the tag of the result
\* was stored at line 117.
EncWriteFail ==
  /\ enc_pc = "draining"
  /\ \E idx \in enc_pending, n \in WriteCuts :
       LET offset == TaskOffset(idx, chunk_size)
           length == TaskLength(idx, chunk_size, Len(src))
           ct  == _worker_encrypt_chunk_mmap(key, base_nonce, idx, src, offset, length)
           mac == HmacSha256(_derive_auth_key(key), ct)
       IN /\ chunk_hmacs' = StoreHmac(chunk_hmacs, idx, mac)
          /\ tmp' = File(WriteAt(tmp.data, WritePos(idx, chunk_size),
                                 SubSeq(U64BE(Len(ct)) \o ct, 1, n)))
          /\ enc_pending' = enc_pending \ {idx}
          /\ enc_ooo' = (enc_ooo \/ \E j \in enc_pending : j < idx)
  /\ enc_pc' = "failed"
  /\ enc_err' = "OSError"
  /\ gc_enabled' = GcOnError(gc_enabled)
  /\ dst' = DstAfterFailure(tmp', dst)
  /\ UNCHANGED <<dst_before, src, chunk_size, key, master, base_nonce, manifest,
                 vault, schema, enc_nonce, tamper>>
  /\ UNCHANGED decvars
  /\ UNCHANGED <<wvars, vvars, pvars, dvars>>

\* What is at the temp path when opening it or writing the header raised:
\* nothing, an empty file, or the magic alone.
OpenCuts == {NoFile, File(<<>>), File(HEADER_MAGIC)}

\* Lines 94-101: gc is disabled, then open(tmp, "wb") or a write of the
\* header raises.
EncOpenFail ==
  /\ enc_pc = "init"
  /\ \E bn \in BaseNonces : base_nonce' = bn
  /\ \E left \in OpenCuts : tmp' = left
  /\ enc_pc' = "failed"
  /\ enc_err' = "OSError"
  /\ gc_enabled' = GcOnError(FALSE)
  /\ dst' = DstAfterFailure(tmp', dst)
  /\ UNCHANGED <<dst_before, src, chunk_size, key, master, enc_pending, chunk_hmacs,
                 manifest, vault, schema, enc_ooo, enc_nonce, tamper>>
  /\ UNCHANGED decvars
  /\ UNCHANGED <<wvars, vvars, pvars, dvars>>

EncFail == EncWorkerFail \/ EncWriteFail \/ EncOpenFail

\* os.replace(tmp, dst), line 146.
EncCommit ==
  /\ enc_pc = "drained"
  /\ dst' = tmp
  /\ tmp' = NoFile
  /\ enc_pc' = "committed"
  /\ UNCHANGED <<dst_before, enc_err, src, chunk_size, key, master, base_nonce, enc_pending,
                 chunk_hmacs, manifest, vault, schema, gc_enabled, enc_ooo, enc_nonce,
                 tamper>>
  /\ UNCHANGED decvars
  /\ UNCHANGED <<wvars, vvars, pvars, dvars>>

\* manifest.write_text(json.dumps(m)), lines 148-158.
EncManifest ==
  /\ enc_pc = "committed"
  /\ manifest' = [exists |-> TRUE, mode |-> "CTR_CHUNKED",
                  base_nonce |-> Hex(base_nonce), chunk_size |-> chunk_size,
                  chunk_count |-> ChunkCount(Len(src), chunk_size),
                  key_id |-> KEY_ID, chunk_hmacs |-> chunk_hmacs, version |-> 1]
  /\ enc_pc' = "manifested"
  /\ UNCHANGED <<dst_before, enc_err, src, chunk_size, key, master, base_nonce, enc_pending, tmp,
                 chunk_hmacs, dst, vault, schema, gc_enabled, enc_ooo, enc_nonce, tamper>>
  /\ UNCHANGED decvars
  /\ UNCHANGED <<wvars, vvars, pvars, dvars>>

\* try: store_key(key_id, key, "ctr", master_secret) / except: pass, lines 160-161.
EncVault ==
  /\ enc_pc = "manifested"
  /\ \E salt \in Salts, iv \in IVs :
       vault' = store_key(vault, KEY_ID, key, "ctr", master, salt, iv)
  /\ schema' = TRUE
  /\ enc_pc' = "vaulted"
  /\ UNCHANGED <<dst_before, enc_err, src, chunk_size, key, master, base_nonce, enc_pending, tmp,
                 chunk_hmacs, dst, manifest, gc_enabled, enc_ooo, enc_nonce,
                 tamper>>
  /\ UNCHANGED decvars
  /\ UNCHANGED <<wvars, vvars, pvars, dvars>>

\* The sequential read loop of decrypt_file_chunked, lines 216-226: at most
\* count records, each an 8-byte length and that many bytes; an empty read of
\* the length ends the loop.
RECURSIVE ReadChunks(_, _, _)
ReadChunks(data, pos, count) ==
  IF count <= 0 THEN <<>>
  ELSE LET len_bytes == ReadAt(data, pos, LEN_PREFIX_SIZE)
       IN IF Len(len_bytes) = 0 THEN <<>>
          ELSE LET l  == FromBytesBE(len_bytes)
                   ct == ReadAt(data, pos + Len(len_bytes), l)
               IN <<ct>> \o ReadChunks(data, pos + Len(len_bytes) + Len(ct), count - 1)

\* A header check that accepts any file.
MagicOk_unchecked(data) == TRUE

\* f.read(5) != HEADER_MAGIC, line 196
MagicOk(data) == ReadAt(data, 0, 5) = HEADER_MAGIC

DecFail(e) ==
  /\ dec_pc' = "failed"
  /\ dec_err' = e
  /\ UNCHANGED <<dec_key, chunks_data, dec_pending, out_tmp, out_path, dec_ooo,
                 dec_nonce>>

\* decrypt_file_chunked, lines 170-264: read the manifest, load the key, check
\* the magic, read the chunks, submit the tasks and open the temp output.
DecStart ==
  /\ enc_pc = "vaulted"
  /\ dec_pc = "idle"
  /\ \E m \in Masters :
       /\ dec_master' = m
       /\ out_before' = out_path
       /\ IF ~manifest.exists THEN DecFail("FileNotFoundError")
          ELSE IF m = <<>> THEN DecFail("ValueError: master secret required")
          ELSE LET loaded == load_key(schema, vault, manifest.key_id, m)
               IN IF loaded.err # "" THEN DecFail(loaded.err)
                  ELSE IF ~MagicOk(dst.data)
                  THEN DecFail("ValueError: invalid header")
                  ELSE LET chunks == ReadChunks(dst.data, HEADER_SIZE, manifest.chunk_count)
                       IN /\ dec_key' = loaded.raw
                          /\ chunks_data' = chunks
                          /\ dec_pending' = 0..(Len(chunks) - 1)
                          /\ dec_nonce' = [i \in 1..Len(chunks) |-> <<>>]
                          /\ out_tmp' = File(<<>>)
                          /\ dec_pc' = "draining"
                          /\ UNCHANGED <<dec_err, out_path, dec_ooo>>
  /\ UNCHANGED encvars
  /\ UNCHANGED <<wvars, vvars, pvars, dvars>>
  /\ UNCHANGED tamper

\* One turn of the loop over as_completed(futures), lines 265-272.  A worker
\* given a key of a length AES does not take raises, and fut.result() raises
\* with it.
DecDrain ==
  /\ dec_pc = "draining"
  /\ \E idx \in dec_pending :
       IF ~ValidAESKey(dec_key)
       THEN /\ dec_pc' = "failed"
            /\ dec_err' = "ValueError: invalid key size"
            /\ UNCHANGED <<dec_pending, out_tmp, dec_ooo, dec_nonce>>
       ELSE LET bn == FromHex(manifest.base_nonce)
                pt == _worker_decrypt_chunk(dec_key, bn, idx, chunks_data[idx + 1])
            IN /\ out_tmp' = File(WriteAt(out_tmp.data,
                                          PlainPos(idx, manifest.chunk_size), pt))
               /\ dec_pending' = dec_pending \ {idx}
               /\ dec_ooo' = (dec_ooo \/ \E j \in dec_pending : j < idx)
               /\ dec_nonce' = [dec_nonce EXCEPT ![idx + 1] = _chunk_nonce(bn, idx)]
               /\ UNCHANGED <<dec_pc, dec_err>>
  /\ UNCHANGED <<dec_master, dec_key, chunks_data, out_path, out_before>>
  /\ UNCHANGED encvars
  /\ UNCHANGED <<wvars, vvars, pvars, dvars>>
  /\ UNCHANGED tamper

\* os.replace(tmp, out_path), line 274.
DecCommit ==
  /\ dec_pc = "draining"
  /\ dec_pending = {}
  /\ out_path' = out_tmp
  /\ out_tmp' = NoFile
  /\ dec_pc' = "done"
  /\ UNCHANGED <<dec_master, dec_err, dec_key, chunks_data, dec_pending,
                 out_before, dec_ooo, dec_nonce>>
  /\ UNCHANGED encvars
  /\ UNCHANGED <<wvars, vvars, pvars, dvars>>
  /\ UNCHANGED tamper

(***************************************************************************)
(* The environment between encrypt and decrypt.                             *)
(***************************************************************************)
OLD_OUTPUT == <<111, 108, 100>>

\* A file already at the output path when decrypt is called.
PlaceOutput ==
  /\ enc_pc = "vaulted"
  /\ dec_pc = "idle"
  /\ ~out_path.exists
  /\ out_path' = File(OLD_OUTPUT)
  /\ UNCHANGED <<dec_master, dec_pc, dec_err, dec_key, chunks_data, dec_pending,
                 out_tmp, out_before, dec_ooo, dec_nonce>>
  /\ UNCHANGED encvars
  /\ UNCHANGED <<wvars, vvars, pvars, dvars>>
  /\ UNCHANGED tamper

FlipBit(b) == IF b % 2 = 0 THEN b + 1 ELSE b - 1

\* Something is changed on disk, once, after a run of encrypt that vaulted its
\* key and before decrypt is called.
CanTamper ==
  /\ enc_pc = "vaulted"
  /\ vault[KEY_ID].present
  /\ dec_pc = "idle"
  /\ tamper = "none"

\* One byte of CIPHERTEXT_i is changed on disk.
TamperCiphertext ==
  /\ CanTamper
  /\ \E idx \in 0..(manifest.chunk_count - 1) :
       \E j \in 1..TaskLength(idx, chunk_size, Len(src)) :
         LET p == WritePos(idx, chunk_size) + LEN_PREFIX_SIZE + j
         IN dst' = File([dst.data EXCEPT ![p] = FlipBit(dst.data[p])])
  /\ tamper' = "ct"
  /\ UNCHANGED <<dst_before, enc_err, src, chunk_size, key, master, base_nonce, enc_pc, enc_pending,
                 tmp, chunk_hmacs, manifest, vault, schema, gc_enabled, enc_ooo, enc_nonce>>
  /\ UNCHANGED decvars
  /\ UNCHANGED <<wvars, vvars, pvars, dvars>>

\* One entry of the manifest's chunk_hmacs is altered.
TamperManifestHmac ==
  /\ CanTamper
  /\ \E i \in 1..Len(manifest.chunk_hmacs) :
       manifest' = [manifest EXCEPT !.chunk_hmacs[i] = <<"altered", @>>]
  /\ tamper' = "hmac"
  /\ UNCHANGED <<dst_before, enc_err, src, chunk_size, key, master, base_nonce, enc_pc, enc_pending,
                 tmp, chunk_hmacs, dst, vault, schema, gc_enabled, enc_ooo, enc_nonce>>
  /\ UNCHANGED decvars
  /\ UNCHANGED <<wvars, vvars, pvars, dvars>>

\* The CHUNK_SIZE field of the header (bytes 21..29) is changed.
TamperHeaderChunkSize ==
  /\ CanTamper
  /\ \E cs \in (1..(MaxChunkSize + 1)) \ {chunk_size} :
       dst' = File(WriteAt(dst.data, 21, U64BE(cs)))
  /\ tamper' = "hdr"
  /\ UNCHANGED <<dst_before, enc_err, src, chunk_size, key, master, base_nonce, enc_pc, enc_pending,
                 tmp, chunk_hmacs, manifest, vault, schema, gc_enabled, enc_ooo, enc_nonce>>
  /\ UNCHANGED decvars
  /\ UNCHANGED <<wvars, vvars, pvars, dvars>>

\* Where the model cuts a record: at its start, inside its length prefix,
\* right after the prefix, and one byte into its ciphertext.
CutOffsets == {0, 3, 8, 9}

\* The ciphertext file is cut at or inside a chunk record.
TamperTruncate ==
  /\ CanTamper
  /\ \E cut \in HEADER_SIZE..(Len(dst.data) - 1) :
       /\ ((cut - HEADER_SIZE) % (LEN_PREFIX_SIZE + chunk_size)) \in CutOffsets
       /\ dst' = File(SubSeq(dst.data, 1, cut))
  /\ tamper' = "trunc"
  /\ UNCHANGED <<dst_before, enc_err, src, chunk_size, key, master, base_nonce, enc_pc, enc_pending,
                 tmp, chunk_hmacs, manifest, vault, schema, gc_enabled, enc_ooo, enc_nonce>>
  /\ UNCHANGED decvars
  /\ UNCHANGED <<wvars, vvars, pvars, dvars>>

\* The manifest sidecar is removed.
RemoveManifest ==
  /\ CanTamper
  /\ manifest' = NoManifest
  /\ tamper' = "nomanifest"
  /\ UNCHANGED <<dst_before, enc_err, src, chunk_size, key, master, base_nonce, enc_pc, enc_pending,
                 tmp, chunk_hmacs, dst, vault, schema, gc_enabled, enc_ooo, enc_nonce>>
  /\ UNCHANGED decvars
  /\ UNCHANGED <<wvars, vvars, pvars, dvars>>

\* One of the first 5 bytes of the ciphertext file is changed.
TamperMagic ==
  /\ CanTamper
  /\ \E j \in 1..Len(HEADER_MAGIC) :
       dst' = File([dst.data EXCEPT ![j] = FlipBit(dst.data[j])])
  /\ tamper' = "magic"
  /\ UNCHANGED <<dst_before, enc_err, src, chunk_size, key, master, base_nonce, enc_pc, enc_pending,
                 tmp, chunk_hmacs, manifest, vault, schema, gc_enabled, enc_ooo, enc_nonce>>
  /\ UNCHANGED decvars
  /\ UNCHANGED <<wvars, vvars, pvars, dvars>>

Encrypt == EncStart \/ EncDrain \/ EncDrained \/ EncCommit \/ EncManifest \/ EncVault
Decrypt == DecStart \/ DecDrain \/ DecCommit

(***************************************************************************)
(* Whole-file engine.                                                       *)
(***************************************************************************)
MaxReadBlock == 2
ReadBlocks == 1..MaxReadBlock
Modes == {"ctr", "gcm", "cbc"}
WHOLE_KEY_ID == "k2"
NONCE16 == [j \in 1..16 |-> (3 * j) % 256]
NONCE12 == [j \in 1..12 |-> (5 * j) % 256]
MAGIC_CTR == <<67, 84, 82>>
MAGIC_GCM == <<71, 67, 77>>
MAGIC_CBC == <<67, 66, 67>>
TAG_LEN == 16

NoMeta == [exists |-> FALSE, key_id |-> "", mode |-> ""]
NoArchive == [exists |-> FALSE, files |-> {}]

\* The while loop of encrypt_stream, lines 39-42: each block read is given to
\* _aes_ctr, which builds a new cipher from the same nonce.
RECURSIVE CtrStreamEncrypt(_, _, _, _)
CtrStreamEncrypt(k, nonce16, data, block) ==
  IF Len(data) = 0 THEN <<>>
  ELSE AesCtr(k, nonce16, SubSeq(data, 1, Min(block, Len(data))))
         \o CtrStreamEncrypt(k, nonce16, SubSeq(data, block + 1, Len(data)), block)

\* AESGCM: CTR from counter block nonce || 2, and a 16-byte tag over the
\* ciphertext.
GcmCounter0(nonce12) == nonce12 \o <<0, 0, 0, 2>>

GcmTag(k, nonce12, ct) ==
  LET d == Digest(k) * 3 + Digest(nonce12) * 5 + Digest(ct) * 11
  IN SubSeq([j \in 1..TAG_LEN |-> (d + 13 * j) % 256], 1, TAG_LEN)

_aes_gcm(k, nonce12, data) ==
  LET ct == AesCtr(k, GcmCounter0(nonce12), data)
  IN ct \o GcmTag(k, nonce12, ct)

_aes_gcm_decrypt(k, nonce12, data) ==
  IF Len(data) < TAG_LEN THEN [err |-> "InvalidTag", value |-> <<>>]
  ELSE LET ct  == SubSeq(data, 1, Len(data) - TAG_LEN)
           tag == SubSeq(data, Len(data) - TAG_LEN + 1, Len(data))
       IN IF tag # GcmTag(k, nonce12, ct) THEN [err |-> "InvalidTag", value |-> <<>>]
          ELSE [err |-> "", value |-> AesCtr(k, GcmCounter0(nonce12), ct)]

\* What encrypt_stream writes to the temp file, by mode.
EncryptStreamBytes(data, mode, k, block) ==
  IF mode = "ctr" THEN MAGIC_CTR \o NONCE16 \o CtrStreamEncrypt(k, NONCE16, data, block)
  ELSE IF mode = "gcm" THEN MAGIC_GCM \o NONCE12 \o _aes_gcm(k, NONCE12, data)
  ELSE MAGIC_CBC \o NONCE16 \o _aes_cbc_encrypt(k, NONCE16, data)

MetaMode(mode) == IF mode = "ctr" THEN "CTR" ELSE IF mode = "gcm" THEN "GCM" ELSE "CBC"

\* What decrypt_file computes from the bytes of the file and the key: the
\* plaintext, or the exception.
DecryptFileBytes(file, k) ==
  LET header == ReadAt(file, 0, 3)
  IN IF header = MAGIC_CTR
     THEN [err |-> "", value |-> AesCtr(k, ReadAt(file, 3, 16), SubSeq(file, 20, Len(file)))]
     ELSE IF header = MAGIC_GCM
     THEN _aes_gcm_decrypt(k, ReadAt(file, 3, 12), SubSeq(file, 16, Len(file)))
     ELSE IF header = MAGIC_CBC
     THEN _aes_cbc_decrypt(k, ReadAt(file, 3, 16), SubSeq(file, 20, Len(file)))
     ELSE [err |-> "ValueError: unknown header", value |-> <<>>]

WInit ==
  /\ w_src \in PlainFiles
  /\ w_mode \in Modes
  /\ w_key \in RawKeys
  /\ w_master \in Masters
  /\ w_block \in ReadBlocks
  /\ w_pc = "init"
  /\ w_enc = NoFile
  /\ w_meta = NoMeta
  /\ w_dec_master = <<>>
  /\ w_out = NoFile
  /\ w_err = ""
  /\ w_archive = NoArchive

WIdle ==
  /\ w_src = <<>>
  /\ w_mode = "ctr"
  /\ w_key = <<>>
  /\ w_master = <<>>
  /\ w_block = 1
  /\ w_pc = "off"
  /\ w_enc = NoFile
  /\ w_meta = NoMeta
  /\ w_dec_master = <<>>
  /\ w_out = NoFile
  /\ w_err = ""
  /\ w_archive = NoArchive

\* encrypt_stream: the temp file is written and renamed, the sidecar is
\* written, then store_key is called and may raise.
EncryptStream ==
  /\ w_pc = "init"
  /\ w_enc' = File(EncryptStreamBytes(w_src, w_mode, w_key, w_block))
  /\ w_meta' = [exists |-> TRUE, key_id |-> WHOLE_KEY_ID, mode |-> MetaMode(w_mode)]
  /\ \E salt \in Salts, iv \in IVs :
       vault' = store_key(vault, WHOLE_KEY_ID, w_key, w_mode, w_master, salt, iv)
  /\ schema' = TRUE
  /\ IF store_key_raises(w_master)
     THEN w_pc' = "enc_failed" /\ w_err' = "ValueError: master secret empty"
     ELSE w_pc' = "encrypted" /\ w_err' = ""
  /\ UNCHANGED <<w_archive, w_src, w_mode, w_key, w_master, w_block, w_dec_master, w_out>>
  /\ UNCHANGED <<cvars_novault, vvars, pvars, dvars>>

\* decrypt_file with key_id taken from the sidecar.
DecryptFile ==
  /\ w_pc \in {"encrypted", "enc_failed"}
  /\ \E m \in Masters :
       /\ w_dec_master' = m
       /\ IF Len(w_enc.data) = 0
          THEN w_pc' = "dec_failed" /\ w_err' = "ValueError: empty file" /\ UNCHANGED w_out
          ELSE IF m = <<>>
          THEN w_pc' = "dec_failed" /\ w_err' = "ValueError: master secret required"
               /\ UNCHANGED w_out
          ELSE LET loaded == load_key(schema, vault, w_meta.key_id, m)
               IN IF loaded.err # ""
                  THEN w_pc' = "dec_failed" /\ w_err' = loaded.err /\ UNCHANGED w_out
                  ELSE IF ~ValidAESKey(loaded.raw)
                  THEN w_pc' = "dec_failed" /\ w_err' = "ValueError: invalid key size"
                       /\ UNCHANGED w_out
                  ELSE LET res == DecryptFileBytes(w_enc.data, loaded.raw)
                       IN IF res.err # ""
                          THEN w_pc' = "dec_failed" /\ w_err' = res.err /\ UNCHANGED w_out
                          ELSE w_pc' = "decrypted" /\ w_err' = "" /\ w_out' = File(res.value)
  /\ UNCHANGED <<w_archive, w_src, w_mode, w_key, w_master, w_block, w_enc, w_meta, vault, schema>>
  /\ UNCHANGED <<cvars_novault, vvars, pvars, dvars>>

\* run_encrypt after its tasks, lines 133-135: an exception of encrypt_stream
\* was caught and printed (lines 78-82), and make_archive puts every file of
\* the output directory into the archive.
MakeArchive ==
  /\ w_pc \in {"encrypted", "enc_failed"}
  /\ ~w_archive.exists
  /\ w_archive' = [exists |-> TRUE,
                   files |-> {n \in {"enc", "meta"} :
                                \/ n = "enc" /\ w_enc.exists
                                \/ n = "meta" /\ w_meta.exists}]
  /\ UNCHANGED <<w_src, w_mode, w_key, w_master, w_block, w_pc, w_enc, w_meta,
                 w_dec_master, w_out, w_err, vault, schema>>
  /\ UNCHANGED <<cvars_novault, vvars, pvars, dvars>>

(***************************************************************************)
(* The vault's operations called directly.                                  *)
(***************************************************************************)
\* The (raw_key, mode) pairs the model stores.
VaultEntries == {<<KEY_A, "ctr">>, <<KEY_B, "gcm">>}
\* The masters the model stores under; load_key is tried with every master.
StoreMasters == {<<>>, <<97>>, <<98>>}

NoStored ==
  [present |-> FALSE, master |-> <<>>, raw |-> <<>>, mode |-> "", replaced |-> FALSE]
NoOp == [op |-> "none", id |-> "", master |-> <<>>, err |-> "", raw |-> <<>>, mode |-> ""]

VInit ==
  /\ v_op = NoOp
  /\ v_stored = [id \in KeyIds |-> NoStored]

\* store_key(key_id, raw_key, mode, master_secret)
StoreKey ==
  /\ \E id \in KeyIds, e \in VaultEntries, m \in StoreMasters, salt \in Salts,
        iv \in IVs :
       /\ vault' = store_key(vault, id, e[1], e[2], m, salt, iv)
       /\ schema' = TRUE
       /\ v_op' = [op |-> "store", id |-> id, master |-> m,
                   err |-> IF store_key_raises(m) THEN "ValueError" ELSE "",
                   raw |-> <<>>, mode |-> ""]
       /\ v_stored' = IF store_key_raises(m) THEN v_stored
                      ELSE [v_stored EXCEPT ![id] =
                              [present |-> TRUE, master |-> m, raw |-> e[1],
                               mode |-> e[2], replaced |-> vault[id].present]]
  /\ UNCHANGED <<cvars_novault, wvars, pvars, dvars>>

\* init(): CREATE TABLE IF NOT EXISTS.
InitSchema ==
  /\ schema' = TRUE
  /\ v_op' = [NoOp EXCEPT !.op = "init"]
  /\ UNCHANGED <<vault, v_stored>>
  /\ UNCHANGED <<cvars_novault, wvars, pvars, dvars>>

\* load_key(key_id, master_secret)
LoadKey ==
  /\ \E id \in KeyIds, m \in Masters :
       LET res == load_key(schema, vault, id, m)
       IN v_op' = [op |-> "load", id |-> id, master |-> m, err |-> res.err,
                   raw |-> res.raw, mode |-> res.mode]
  /\ UNCHANGED <<vault, schema, v_stored>>
  /\ UNCHANGED <<cvars_novault, wvars, pvars, dvars>>

(***************************************************************************)
(* Floating point.  A Python float is a binary float of 53 significant      *)
(* bits, rounded to nearest, ties to even; the model keeps the same          *)
(* arithmetic with MantBits significant bits.  A float is <<m, e>> with      *)
(* value m * 2^e, m = 0 or 2^(MantBits-1) <= m < 2^MantBits.                 *)
(***************************************************************************)
MantBits == 3

RECURSIVE Pow2(_)
Pow2(n) == IF n <= 0 THEN 1 ELSE 2 * Pow2(n - 1)

RECURSIVE BitLen(_)
BitLen(n) == IF n = 0 THEN 0 ELSE 1 + BitLen(n \div 2)

FlZero == <<0, 0>>

\* The float nearest to (n + f) * 2^e, where 0 <= f < 1 and sticky = 1 says
\* that f > 0.  Callers that pass sticky = 1 pass an n of at least
\* MantBits + 2 bits.
FlRound(n, e, sticky) ==
  IF n = 0 THEN FlZero
  ELSE LET k == BitLen(n) - MantBits
       IN IF k <= 0 THEN <<n * Pow2(0 - k), e + k>>
          ELSE LET q    == n \div Pow2(k)
                   r    == n % Pow2(k)
                   half == Pow2(k - 1)
                   up   == \/ r > half
                           \/ r = half /\ sticky = 1
                           \/ r = half /\ sticky = 0 /\ q % 2 = 1
                   q2   == IF up THEN q + 1 ELSE q
               IN IF q2 = Pow2(MantBits) THEN <<Pow2(MantBits - 1), e + k + 1>>
                  ELSE <<q2, e + k>>

\* float(n) for an int n >= 0.
FlFromInt(n) == FlRound(n, 0, 0)

\* The float literal nearest to num / den; s is large enough for
\* num * 2^s / den to have MantBits + 2 bits.
FlLiteral(num, den, s) ==
  FlRound((num * Pow2(s)) \div den, 0 - s,
          IF (num * Pow2(s)) % den = 0 THEN 0 ELSE 1)

FlLt(a, b) ==
  IF b[1] = 0 THEN FALSE
  ELSE IF a[1] = 0 THEN TRUE
  ELSE a[2] < b[2] \/ (a[2] = b[2] /\ a[1] < b[1])

FlLe(a, b) == a = b \/ FlLt(a, b)

\* max(a, b): the first argument unless the second is greater.
FlMax(a, b) == IF FlLt(a, b) THEN b ELSE a

FlMul(a, b) == FlRound(a[1] * b[1], a[2] + b[2], 0)

\* a / b for b > 0.
FlDiv(a, b) ==
  IF a[1] = 0 THEN FlZero
  ELSE LET s   == MantBits + 2
           num == a[1] * Pow2(s)
       IN FlRound(num \div b[1], a[2] - b[2] - s, IF num % b[1] = 0 THEN 0 ELSE 1)

FlAdd(a, b) ==
  IF a[1] = 0 THEN b
  ELSE IF b[1] = 0 THEN a
  ELSE LET emin == Min(a[2], b[2])
       IN FlRound(a[1] * Pow2(a[2] - emin) + b[1] * Pow2(b[2] - emin), emin, 0)

\* a - b for a >= b.
FlSub(a, b) ==
  IF b[1] = 0 THEN a
  ELSE LET emin == Min(a[2], b[2])
       IN FlRound(a[1] * Pow2(a[2] - emin) - b[1] * Pow2(b[2] - emin), emin, 0)

(***************************************************************************)
(* Adaptive predictor (adaptive_predictor.py, through cost_model.py).       *)
(***************************************************************************)
Suffixes == {".a", ".b"}
MiB == 1024 * 1024

FlOne == FlFromInt(1)
\* alpha = 0.25
ALPHA == FlLiteral(1, 4, MantBits + 4)
\* 1e-6
T_FLOOR == FlLiteral(1, 1000000, 26)

\* _estimate_initial_rate returns between 4 MiB/s and 12 MiB/s, or 10 MiB/s.
InitialRates == {FlFromInt(4 * MiB), FlFromInt(8 * MiB), FlFromInt(10 * MiB)}

\* predict: chunk_size / max(1.0, rate)
predict(rates, size, suffix) ==
  FlDiv(FlFromInt(size), FlMax(FlOne, rates[suffix]))

\* observed_rate = chunk_size / max(1e-6, actual_s)
ObservedRate(size, actual_s) ==
  FlDiv(FlFromInt(size), FlMax(T_FLOOR, actual_s))

\* A smoothing that ignores what was observed.
ExpSmooth_decay(current_rate, observed_rate) ==
  FlMul(FlSub(FlOne, ALPHA), current_rate)

\* (1 - self.alpha) * current_rate + self.alpha * observed_rate
ExpSmooth(current_rate, observed_rate) ==
  FlAdd(FlMul(FlSub(FlOne, ALPHA), current_rate), FlMul(ALPHA, observed_rate))

\* An observe that smooths the rate of every suffix.
observe_all(rates, size, suffix, actual_s) ==
  [sfx \in DOMAIN rates |-> ExpSmooth(rates[sfx], ObservedRate(size, actual_s))]

\* observe: the new type_rate.
observe(rates, size, suffix, actual_s) ==
  [rates EXCEPT ![suffix] = ExpSmooth(@, ObservedRate(size, actual_s))]

MaxObserve == 2
ObserveSizes == {0, MiB, 10 * MiB}
\* Elapsed seconds: below the floor of 1e-6, 1/128, 1 and 8.
ObserveTimes ==
  {FlLiteral(1, Pow2(21), 21 + MantBits + 2), FlLiteral(1, 128, 7 + MantBits + 2),
   FlFromInt(1), FlFromInt(8)}
PredictSizes == {1, MiB, 16 * MiB}

NoObserve ==
  [suffix |-> "", size |-> 0, t |-> FlZero, prev |-> FlZero, observed |-> FlZero]

PrInit ==
  /\ rate_bps \in InitialRates
  /\ type_rate = [sfx \in Suffixes |-> rate_bps]
  /\ pr_seen = {}
  /\ pr_pc = "on"
  /\ pr_count = 0
  /\ pr_last = NoObserve

PrIdle ==
  /\ rate_bps = FlFromInt(10 * MiB)
  /\ type_rate = [sfx \in Suffixes |-> rate_bps]
  /\ pr_seen = {}
  /\ pr_pc = "off"
  /\ pr_count = 0
  /\ pr_last = NoObserve

\* SchedulerPlus.observe -> CostModel.observe -> AdaptivePredictor.observe
Observe ==
  /\ pr_pc = "on"
  /\ pr_count < MaxObserve
  /\ \E size \in ObserveSizes, sfx \in Suffixes, t \in ObserveTimes :
       /\ type_rate' = observe(type_rate, size, sfx, t)
       /\ pr_last' = [suffix |-> sfx, size |-> size, t |-> t,
                      prev |-> type_rate[sfx], observed |-> ObservedRate(size, t)]
  /\ pr_count' = pr_count + 1
  /\ pr_seen' = pr_seen \cup {pr_last'.suffix}
  /\ UNCHANGED <<pr_pc, rate_bps, pl_files, pl_plan, pl_pc, el_size, el_workers, el_chunk,
                 el_pc>>
  /\ UNCHANGED <<cvars, wvars, vvars, dvars>>

(***************************************************************************)
(* Scheduler (scheduler_plus.py).  A file is [path, size, suffix]; its path  *)
(* is its position in the list given to plan.                               *)
(***************************************************************************)
SJF_THRESHOLD == 10 * 1024 * 1024

Task(prio, path, size, suffix) ==
  [prio |-> prio, path |-> path, size |-> size, suffix |-> suffix]

\* Task.__lt__ on the priorities predict returns.
TaskLt(a, b) == FlLt(a.prio, b.prio)

RECURSIVE SumSizes(_)
SumSizes(files) ==
  IF files = <<>> THEN 0
  ELSE files[1].size + SumSizes(SubSeq(files, 2, Len(files)))

\* An insertion that puts a task before the tasks of its own size.
InsertBySize_before_equal(sorted, t) ==
  LET k == Cardinality({i \in 1..Len(sorted) : sorted[i].size < t.size})
  IN SubSeq(sorted, 1, k) \o <<t>> \o SubSeq(sorted, k + 1, Len(sorted))

\* list.sort(key=lambda x: x.size) is stable: a task goes after every task
\* already placed whose size is not greater.
InsertBySize(sorted, t) ==
  LET k == Cardinality({i \in 1..Len(sorted) : sorted[i].size <= t.size})
  IN SubSeq(sorted, 1, k) \o <<t>> \o SubSeq(sorted, k + 1, Len(sorted))

RECURSIVE SortBySize(_)
SortBySize(tasks) ==
  IF tasks = <<>> THEN <<>>
  ELSE InsertBySize(SortBySize(SubSeq(tasks, 1, Len(tasks) - 1)), tasks[Len(tasks)])

\* heapq._siftdown(heap, startpos, pos) with newitem = heap[pos]; positions
\* count from 0.
RECURSIVE _siftdown(_, _, _, _)
_siftdown(heap, startpos, pos, newitem) ==
  LET parentpos == (pos - 1) \div 2
  IN IF pos > startpos /\ TaskLt(newitem, heap[parentpos + 1])
     THEN _siftdown([heap EXCEPT ![pos + 1] = heap[parentpos + 1]], startpos,
                    parentpos, newitem)
     ELSE [heap EXCEPT ![pos + 1] = newitem]

heappush(heap, item) == _siftdown(Append(heap, item), 0, Len(heap), item)

\* The while loop of heapq._siftup: the smaller child moves up until a leaf
\* is reached; the right child is taken unless the left one is smaller.
RECURSIVE SiftUpLoop(_, _)
SiftUpLoop(heap, pos) ==
  LET endpos   == Len(heap)
      childpos == 2 * pos + 1
      rightpos == childpos + 1
  IN IF childpos < endpos
     THEN LET c == IF rightpos < endpos /\ ~TaskLt(heap[childpos + 1], heap[rightpos + 1])
                   THEN rightpos ELSE childpos
          IN SiftUpLoop([heap EXCEPT ![pos + 1] = heap[c + 1]], c)
     ELSE <<heap, pos>>

_siftup(heap, pos) ==
  LET newitem == heap[pos + 1]
      r == SiftUpLoop(heap, pos)
  IN _siftdown(r[1], pos, r[2], newitem)

heappop(heap) ==
  LET lastelt == heap[Len(heap)]
      rest == SubSeq(heap, 1, Len(heap) - 1)
  IN IF Len(rest) = 0 THEN [item |-> lastelt, heap |-> rest]
     ELSE [item |-> rest[1], heap |-> _siftup([rest EXCEPT ![1] = lastelt], 0)]

\* Lines 43-47: push a task per file, in input order.
RECURSIVE PushAll(_, _, _, _)
PushAll(pq, files, i, rates) ==
  IF i > Len(files) THEN pq
  ELSE PushAll(heappush(pq, Task(predict(rates, files[i].size, files[i].suffix),
                                 files[i].path, files[i].size, files[i].suffix)),
               files, i + 1, rates)

\* A loop that stops while one task is still in the heap.
RECURSIVE PopAll_until_one(_)
PopAll_until_one(pq) ==
  IF Len(pq) <= 1 THEN <<>>
  ELSE LET r == heappop(pq) IN <<r.item>> \o PopAll_until_one(r.heap)

\* Lines 49-52: pop until the heap is empty.
RECURSIVE PopAll(_)
PopAll(pq) ==
  IF Len(pq) = 0 THEN <<>>
  ELSE LET r == heappop(pq) IN <<r.item>> \o PopAll(r.heap)

plan(files, rates) ==
  IF Len(files) = 0 THEN <<>>
  ELSE IF SumSizes(files) < SJF_THRESHOLD
  THEN SortBySize([i \in 1..Len(files) |->
                     Task(files[i].size, files[i].path, files[i].size, files[i].suffix)])
  ELSE PopAll(PushAll(<<>>, files, 1, rates))

MaxFiles == 4
PlanSizes == {MiB, 3 * MiB, 5 * MiB}
FileKinds == {<<sz, sfx>> : sz \in PlanSizes, sfx \in Suffixes}

\* The lists of n files, each with its position as its path.
FileListsOf(n) ==
  {[i \in 1..n |-> [path |-> i, size |-> f[i][1], suffix |-> f[i][2]]] :
     f \in [1..n -> FileKinds]}

FileLists == UNION {FileListsOf(n) : n \in 0..MaxFiles}

\* The rates the predictor holds when plan is called.
PlanRates ==
  {[sfx \in Suffixes |-> IF sfx = ".a" THEN FlFromInt(8 * MiB) ELSE r] :
     r \in {FlFromInt(4 * MiB), FlFromInt(8 * MiB)}}

PlInit ==
  /\ pl_files \in FileLists
  /\ pl_plan = <<>>
  /\ pl_pc = "init"

PlIdle ==
  /\ pl_files = <<>>
  /\ pl_plan = <<>>
  /\ pl_pc = "off"

\* run_encrypt, line 46: plan = current_scheduler.plan(files)
Plan ==
  /\ pl_pc = "init"
  /\ pl_plan' = plan(pl_files, type_rate)
  /\ pl_pc' = "planned"
  /\ UNCHANGED <<type_rate, pr_pc, pr_count, pr_last, rate_bps, pr_seen, pl_files, el_size, el_workers,
                 el_chunk, el_pc>>
  /\ UNCHANGED <<cvars, wvars, vvars, dvars>>

(***************************************************************************)
(* Elastic chunk size (cli_plus.py).                                        *)
(***************************************************************************)
MIN_CHUNK == 1 * 1024 * 1024
MAX_CHUNK == 64 * 1024 * 1024

\* A chunk size that is not raised to MIN_CHUNK.
_calculate_elastic_chunk_size_no_min(file_size, workers) ==
  IF file_size = 0 THEN 1024 * 1024
  ELSE LET ideal   == file_size \div (workers * 4)
           clamped == IF ideal > MAX_CHUNK THEN MAX_CHUNK ELSE ideal
           floored == (clamped \div 16) * 16
       IN IF floored = 0 THEN 16 ELSE floored

\* A chunk size floored to a whole number of MiB.
_calculate_elastic_chunk_size_whole_mib(file_size, workers) ==
  IF file_size = 0 THEN 1024 * 1024
  ELSE LET ideal   == file_size \div (workers * 4)
           raised  == IF ideal < MIN_CHUNK THEN MIN_CHUNK ELSE ideal
           clamped == IF raised > MAX_CHUNK THEN MAX_CHUNK ELSE raised
       IN (clamped \div MIN_CHUNK) * MIN_CHUNK

_calculate_elastic_chunk_size(file_size, workers) ==
  IF file_size = 0 THEN 1024 * 1024
  ELSE LET target_chunk_count == workers * 4
           ideal   == file_size \div target_chunk_count
           raised  == IF ideal < MIN_CHUNK THEN MIN_CHUNK ELSE ideal
           clamped == IF raised > MAX_CHUNK THEN MAX_CHUNK ELSE raised
           floored == (clamped \div 16) * 16
       IN IF floored = 0 THEN 16 ELSE floored

MaxWorkers == 4

\* File sizes around the powers of two from 4 MiB to 1 GiB, and small ones.
ElasticSizes ==
  {0} \cup {b + d : b \in {0, Pow2(22), Pow2(24), Pow2(26), Pow2(28), Pow2(30)},
                    d \in {1, 17, 64, 4194303, 16777259}}

EInit ==
  /\ el_size \in ElasticSizes
  /\ el_workers \in 1..MaxWorkers
  /\ el_chunk = 0
  /\ el_pc = "init"

EIdle ==
  /\ el_size = 0
  /\ el_workers = 1
  /\ el_chunk = 0
  /\ el_pc = "off"

\* run_encrypt, line 116.
ElasticChunk ==
  /\ el_pc = "init"
  /\ el_chunk' = _calculate_elastic_chunk_size(el_size, el_workers)
  /\ el_pc' = "done"
  /\ UNCHANGED <<el_size, el_workers>>
  /\ UNCHANGED <<type_rate, pr_pc, pr_count, pr_last, rate_bps, pr_seen, pl_files, pl_plan, pl_pc>>
  /\ UNCHANGED <<cvars, wvars, vvars, dvars>>

(***************************************************************************)
(* Driver (cli_plus.py, run_encrypt).  A file is named by its position in    *)
(* the directory listing; an engine call either commits <path>.enc or       *)
(* raises, as its caller sees it.                                           *)
(***************************************************************************)
HEAVY_THRESHOLD == 16 * 1024 * 1024

\* str.lower() on the modes the model passes.
Lower(mode) ==
  IF mode = "CTR" THEN "ctr" ELSE IF mode = "GCM" THEN "gcm" ELSE mode

\* A test that compares the mode as it was given.
IsHeavy_case_sensitive(size, mode) == size >= HEAVY_THRESHOLD /\ mode = "ctr"

\* t.size >= HEAVY_THRESHOLD and mode.lower() == 'ctr', line 62
IsHeavy(size, mode) == size >= HEAVY_THRESHOLD /\ Lower(mode) = "ctr"

\* The loop of lines 61-65: the tasks of the plan that go to one list, in
\* plan order.
Partition(tasks, mode, heavy) ==
  SelectSeq(tasks, LAMBDA t : IsHeavy(t.size, mode) = heavy)

\* plan of lines 45-49: the scheduler's plan, or the listing order.
DriverPlan(policy, files, rates) ==
  IF policy = "priority" THEN plan(files, rates)
  ELSE [i \in 1..Len(files) |->
          Task(i - 1, files[i].path, files[i].size, files[i].suffix)]

\* A handler that lets the exception end the run.
OnFileError_abort(next_pc) == "aborted"

\* except Exception as e: print(...), lines 81-82, 104-105 and 130-131: the
\* run goes on where it would have gone.
OnFileError(next_pc) == next_pc

\* What encrypt_file_chunked commits for a file of filesize bytes with chunk
\* size cs: chunk_count records on the grid of write_pos, the last one of the
\* remaining length, and one manifest entry per chunk.
ChunkedResult(filesize, cs) ==
  LET n == ChunkCount(filesize, cs)
  IN [kind |-> "enc", engine |-> "chunked", chunk_size |-> cs, chunk_count |-> n,
      length |-> IF n = 0 THEN HEADER_SIZE
                 ELSE WritePos(n - 1, cs) + LEN_PREFIX_SIZE
                      + TaskLength(n - 1, cs, filesize),
      hmacs |-> n]

WholeResult ==
  [kind |-> "enc", engine |-> "whole", chunk_size |-> 0, chunk_count |-> 0,
   length |-> 0, hmacs |-> 0]

\* What an engine call that raised leaves at the output: nothing, or its
\* temp file.
NoOutput ==
  [kind |-> "none", engine |-> "", chunk_size |-> 0, chunk_count |-> 0,
   length |-> 0, hmacs |-> 0]

TmpLeft(engine) == [NoOutput EXCEPT !.kind = "tmp", !.engine = engine]

FailureLeaves(engine) == {NoOutput, TmpLeft(engine)}

MaxDriverFiles == 2
DriverModes == {"ctr", "CTR", "gcm"}
DriverPolicies == {"priority", "fifo"}
DriverWorkers == {4}
DriverKinds ==
  {<<MiB, ".a">>, <<12 * MiB, ".b">>, <<16 * MiB, ".a">>, <<20 * MiB, ".b">>}

DriverFileLists ==
  UNION {{[i \in 1..n |-> [path |-> i, size |-> f[i][1], suffix |-> f[i][2]]] :
            f \in [1..n -> DriverKinds]} : n \in 0..MaxDriverFiles}

\* The elapsed seconds the driver reports: 0.001 for the inline file, 0.01
\* for a file of the thread batch, the measured time for a chunked file.
T_INLINE == FlLiteral(1, 1000, 10 + MantBits + 2)
T_BATCH == FlLiteral(1, 100, 7 + MantBits + 2)
ElapsedTimes == {FlFromInt(1), FlFromInt(2)}

NoArchiveYet == [exists |-> FALSE, files |-> {}]

DrInit ==
  /\ dr_mode \in DriverModes
  /\ dr_policy \in DriverPolicies
  /\ dr_workers \in DriverWorkers
  /\ dr_files \in DriverFileLists
  /\ dr_plan = <<>>
  /\ dr_small = <<>>
  /\ dr_big = <<>>
  /\ dr_futures = {}
  /\ dr_log = <<>>
  /\ dr_outdir = [i \in 1..Len(dr_files) |-> NoOutput]
  /\ dr_archive = NoArchiveYet
  /\ dr_pc = "init"

DrIdle ==
  /\ dr_mode = ""
  /\ dr_policy = ""
  /\ dr_workers = 1
  /\ dr_files = <<>>
  /\ dr_plan = <<>>
  /\ dr_small = <<>>
  /\ dr_big = <<>>
  /\ dr_futures = {}
  /\ dr_log = <<>>
  /\ dr_outdir = <<>>
  /\ dr_archive = NoArchiveYet
  /\ dr_pc = "off"

DrOthersUnchanged ==
  /\ UNCHANGED <<pr_pc, pr_count, pr_last, rate_bps, pl_files, pl_plan, pl_pc, el_size,
                 el_workers, el_chunk, el_pc>>
  /\ UNCHANGED <<cvars, wvars, vvars, runvars, appvars, ksvars, rdvars>>

LogEntry(task, engine, ok) ==
  [path |-> task.path, size |-> task.size, engine |-> engine, ok |-> ok]

\* Lines 39-65: nothing to do for an empty directory; else plan and
\* partition.
DrPlan ==
  /\ dr_pc = "init"
  /\ IF Len(dr_files) = 0
     THEN /\ dr_pc' = "returned"
          /\ UNCHANGED <<dr_plan, dr_small, dr_big>>
     ELSE LET p == DriverPlan(dr_policy, dr_files, type_rate)
          IN /\ dr_plan' = p
             /\ dr_small' = Partition(p, dr_mode, FALSE)
             /\ dr_big' = Partition(p, dr_mode, TRUE)
             /\ dr_pc' = "small"
  /\ UNCHANGED <<dr_mode, dr_policy, dr_workers, dr_files, dr_futures, dr_log,
                 dr_outdir, dr_archive, type_rate, pr_seen>>
  /\ DrOthersUnchanged

\* Line 68: no small task.
DrSmallNone ==
  /\ dr_pc = "small"
  /\ Len(dr_small) = 0
  /\ dr_pc' = "big"
  /\ UNCHANGED <<dr_mode, dr_policy, dr_workers, dr_files, dr_plan, dr_small, dr_big,
                 dr_futures, dr_log, dr_outdir, dr_archive, type_rate, pr_seen>>
  /\ DrOthersUnchanged

\* Lines 72-82: the only small task is encrypted inline.
DrSmallInline ==
  /\ dr_pc = "small"
  /\ Len(dr_small) = 1
  /\ LET task == dr_small[1]
     IN \/ /\ dr_log' = Append(dr_log, LogEntry(task, "whole", TRUE))
           /\ dr_outdir' = [dr_outdir EXCEPT ![task.path] = WholeResult]
           /\ type_rate' = observe(type_rate, task.size, task.suffix, T_INLINE)
           /\ pr_seen' = pr_seen \cup {task.suffix}
           /\ dr_pc' = "big"
        \/ /\ dr_log' = Append(dr_log, LogEntry(task, "whole", FALSE))
           /\ \E left \in FailureLeaves("whole") :
                dr_outdir' = [dr_outdir EXCEPT ![task.path] = left]
           /\ dr_pc' = OnFileError("big")
           /\ UNCHANGED <<type_rate, pr_seen>>
  /\ UNCHANGED <<dr_mode, dr_policy, dr_workers, dr_files, dr_plan, dr_small, dr_big,
                 dr_futures, dr_archive>>
  /\ DrOthersUnchanged

\* Lines 88-97: every small task is submitted to the thread pool.
DrSmallSubmit ==
  /\ dr_pc = "small"
  /\ Len(dr_small) > 1
  /\ dr_futures' = {dr_small[i].path : i \in 1..Len(dr_small)}
  /\ dr_pc' = "collect"
  /\ UNCHANGED <<dr_mode, dr_policy, dr_workers, dr_files, dr_plan, dr_small, dr_big,
                 dr_log, dr_outdir, dr_archive, type_rate, pr_seen>>
  /\ DrOthersUnchanged

\* One turn of the loop over as_completed(futures), lines 99-105: any
\* future not yet taken may be the next; its encrypt_stream returned or
\* raised.
DrSmallResult ==
  /\ dr_pc = "collect"
  /\ \E path \in dr_futures :
       LET task == dr_files[path]
       IN /\ dr_futures' = dr_futures \ {path}
          /\ \/ /\ dr_log' = Append(dr_log, LogEntry(task, "whole", TRUE))
                /\ dr_outdir' = [dr_outdir EXCEPT ![path] = WholeResult]
                /\ type_rate' = observe(type_rate, task.size, task.suffix, T_BATCH)
                /\ pr_seen' = pr_seen \cup {task.suffix}
                /\ dr_pc' = "collect"
             \/ /\ dr_log' = Append(dr_log, LogEntry(task, "whole", FALSE))
                /\ \E left \in FailureLeaves("whole") :
                     dr_outdir' = [dr_outdir EXCEPT ![path] = left]
                /\ dr_pc' = OnFileError("collect")
                /\ UNCHANGED <<type_rate, pr_seen>>
  /\ UNCHANGED <<dr_mode, dr_policy, dr_workers, dr_files, dr_plan, dr_small, dr_big,
                 dr_archive>>
  /\ DrOthersUnchanged

\* as_completed is exhausted and the with block of line 88 ends.
DrSmallDone ==
  /\ dr_pc = "collect"
  /\ dr_futures = {}
  /\ dr_pc' = "big"
  /\ UNCHANGED <<dr_mode, dr_policy, dr_workers, dr_files, dr_plan, dr_small, dr_big,
                 dr_futures, dr_log, dr_outdir, dr_archive, type_rate, pr_seen>>
  /\ DrOthersUnchanged

\* One turn of the loop of lines 109-131: the next big task is encrypted by
\* encrypt_file_chunked with its elastic chunk size.
DrBig ==
  /\ dr_pc = "big"
  /\ Len(dr_big) > 0
  /\ LET task == dr_big[1]
         elastic_chunk == _calculate_elastic_chunk_size(task.size, dr_workers)
     IN \/ /\ dr_log' = Append(dr_log, LogEntry(task, "chunked", TRUE))
           /\ dr_outdir' = [dr_outdir EXCEPT ![task.path] =
                              ChunkedResult(task.size, elastic_chunk)]
           /\ \E elapsed \in ElapsedTimes :
                /\ type_rate' = observe(type_rate, task.size, task.suffix, elapsed)
                /\ pr_seen' = pr_seen \cup {task.suffix}
           /\ dr_pc' = "big"
        \/ /\ dr_log' = Append(dr_log, LogEntry(task, "chunked", FALSE))
           /\ \E left \in FailureLeaves("chunked") :
                dr_outdir' = [dr_outdir EXCEPT ![task.path] = left]
           /\ dr_pc' = OnFileError("big")
           /\ UNCHANGED <<type_rate, pr_seen>>
  /\ dr_big' = Tail(dr_big)
  /\ UNCHANGED <<dr_mode, dr_policy, dr_workers, dr_files, dr_plan, dr_small,
                 dr_futures, dr_archive>>
  /\ DrOthersUnchanged

\* Lines 133-137: make_archive zips what is in out_dir.
DrArchive ==
  /\ dr_pc = "big"
  /\ Len(dr_big) = 0
  /\ dr_archive' = [exists |-> TRUE,
                    files |-> {<<i, dr_outdir[i].kind>> :
                                 i \in {j \in 1..Len(dr_outdir) :
                                          dr_outdir[j].kind # "none"}}]
  /\ dr_pc' = "archived"
  /\ UNCHANGED <<dr_mode, dr_policy, dr_workers, dr_files, dr_plan, dr_small, dr_big,
                 dr_futures, dr_log, dr_outdir, type_rate, pr_seen>>
  /\ DrOthersUnchanged

RunEncryptSteps ==
  \/ DrPlan \/ DrSmallNone \/ DrSmallInline \/ DrSmallSubmit \/ DrSmallResult
  \/ DrSmallDone \/ DrBig \/ DrArchive

(***************************************************************************)
(* Runs of run_encrypt one after another (cli_plus.py, lines 34-53, and the  *)
(* store of key_vault.py): each run takes the clock, derives its key_id,    *)
(* draws a key, writes its ciphertexts and stores the key under the key_id. *)
(***************************************************************************)
MaxRuns == 3
MaxClock == 1
InDirs == {"d1", "d2"}
OutDirs == {"o1", "o2"}
RunModes == {"ctr", "gcm"}

\* in_dir_hash = hashlib.sha256(str(in_dir).encode()).hexdigest()[:16]
InDirHash(in_dir) == <<"sha256_16", in_dir>>

\* key_id = f"{in_dir_hash}-{mode}-{int(t_start)}"
RunKeyId(in_dir, mode, t_start) == <<InDirHash(in_dir), mode, t_start>>

RunKeyIds == {RunKeyId(d, m, t) : d \in InDirs, m \in RunModes, t \in 0..MaxClock}

NoKey == 0
NoCiphertext == [key_id |-> <<>>, key |-> NoKey]

\* REPLACE INTO keys, key_vault.py lines 61-64.
VaultUpsert(v, key_id, k) == [v EXCEPT ![key_id] = k]

RunInit ==
  /\ clock = 0
  /\ run_log = <<>>
  /\ run_vault = [id \in RunKeyIds |-> NoKey]
  /\ run_outdirs = [o \in OutDirs |-> [d \in InDirs |-> NoCiphertext]]

RunIdle ==
  /\ clock = 0
  /\ run_log = <<>>
  /\ run_vault = <<>>
  /\ run_outdirs = <<>>

RunOthersUnchanged ==
  /\ UNCHANGED <<cvars, wvars, vvars, pvars, drvars, appvars, ksvars, rdvars>>

\* A second passes.
Tick ==
  /\ clock < MaxClock
  /\ clock' = clock + 1
  /\ UNCHANGED <<run_log, run_vault, run_outdirs>>
  /\ RunOthersUnchanged

\* One run of run_encrypt over in_dir into out_dir with a master secret that
\* is not empty: gen_key() returns a key no earlier run had (the runs are
\* numbered by their keys).
RunEncrypt ==
  /\ Len(run_log) < MaxRuns
  /\ \E d \in InDirs, m \in RunModes, o \in OutDirs :
       LET t_start == clock
           key_id == RunKeyId(d, m, t_start)
           k == Len(run_log) + 1
       IN /\ run_log' = Append(run_log, [in_dir |-> d, mode |-> m, out_dir |-> o,
                                         key_id |-> key_id, key |-> k])
          /\ run_outdirs' = [run_outdirs EXCEPT ![o][d] = [key_id |-> key_id, key |-> k]]
          /\ run_vault' = VaultUpsert(run_vault, key_id, k)
  /\ UNCHANGED clock
  /\ RunOthersUnchanged

(***************************************************************************)
(* Lazy initialisation of the web application (app.py, ensure_system_ready). *)
(***************************************************************************)
MaxThreads == 3
Threads == 1..MaxThreads
NoPool == 0
NoScheduler == 0
\* Lines 34-35: the defaults, with DEFAULT_CHUNK_MB = 8 (config.py 12).
DEFAULT_WORKERS == 4
DEFAULT_CHUNK_SIZE == 8 * 1024 * 1024
\* What tune_short returns: a candidate chunk size and a candidate worker
\* count (autotuner.py 48-52, 69-73).
TuneResults ==
  {[status |-> "ok", best_chunk |-> c, best_workers |-> w] :
     c \in {1024 * 1024, 16 * 1024 * 1024}, w \in {1, 6}}
NoTune == [status |-> "none", best_chunk |-> 0, best_workers |-> 0]
TuneRaised == [status |-> "raised", best_chunk |-> 0, best_workers |-> 0]

\* A lock any thread may pass.
LockFree_unlocked(holder) == TRUE

\* with _SYSTEM_LOCK, line 53: the lock is taken when no thread holds it.
LockFree(holder) == holder = 0

AppInit ==
  /\ GLOBAL_POOL = NoPool
  /\ GLOBAL_SCHEDULER = NoScheduler
  /\ BEST_WORKERS = DEFAULT_WORKERS
  /\ BEST_CHUNK_SIZE = DEFAULT_CHUNK_SIZE
  /\ tune_result = NoTune
  /\ lock_holder = 0
  /\ th_pc = [t \in Threads |-> "idle"]
  /\ th_pool = [t \in Threads |-> NoPool]
  /\ tuning = {}
  /\ tune_runs = 0
  /\ pools = 0

AppIdle ==
  /\ GLOBAL_POOL = NoPool
  /\ GLOBAL_SCHEDULER = NoScheduler
  /\ BEST_WORKERS = DEFAULT_WORKERS
  /\ BEST_CHUNK_SIZE = DEFAULT_CHUNK_SIZE
  /\ tune_result = NoTune
  /\ lock_holder = 0
  /\ th_pc = <<>>
  /\ th_pool = <<>>
  /\ tuning = {}
  /\ tune_runs = 0
  /\ pools = 0

AppOthersUnchanged ==
  /\ UNCHANGED <<cvars, wvars, vvars, pvars, drvars, runvars, ksvars, rdvars>>

\* A request handler calls ensure_system_ready.
Call ==
  \E t \in Threads :
    /\ th_pc[t] = "idle"
    /\ th_pc' = [th_pc EXCEPT ![t] = "l49"]
    /\ UNCHANGED <<GLOBAL_POOL, lock_holder, th_pool, tuning, tune_runs, pools>>
    /\ UNCHANGED <<GLOBAL_SCHEDULER, BEST_WORKERS, BEST_CHUNK_SIZE, tune_result>>
    /\ AppOthersUnchanged

\* Lines 49-50: if GLOBAL_POOL is not None: return
FastCheck ==
  \E t \in Threads :
    /\ th_pc[t] = "l49"
    /\ th_pc' = [th_pc EXCEPT ![t] = IF GLOBAL_POOL # NoPool THEN "done" ELSE "l53"]
    /\ UNCHANGED <<GLOBAL_POOL, lock_holder, th_pool, tuning, tune_runs, pools>>
    /\ UNCHANGED <<GLOBAL_SCHEDULER, BEST_WORKERS, BEST_CHUNK_SIZE, tune_result>>
    /\ AppOthersUnchanged

\* Line 53: with _SYSTEM_LOCK
Acquire ==
  \E t \in Threads :
    /\ th_pc[t] = "l53"
    /\ LockFree(lock_holder)
    /\ lock_holder' = t
    /\ th_pc' = [th_pc EXCEPT ![t] = "l55"]
    /\ UNCHANGED <<GLOBAL_POOL, th_pool, tuning, tune_runs, pools>>
    /\ UNCHANGED <<GLOBAL_SCHEDULER, BEST_WORKERS, BEST_CHUNK_SIZE, tune_result>>
    /\ AppOthersUnchanged

\* Lines 55-56: the second check; the return leaves the with block.
DoubleCheck ==
  \E t \in Threads :
    /\ th_pc[t] = "l55"
    /\ IF GLOBAL_POOL # NoPool
       THEN /\ th_pc' = [th_pc EXCEPT ![t] = "done"]
            /\ lock_holder' = 0
       ELSE /\ th_pc' = [th_pc EXCEPT ![t] = "l61"]
            /\ UNCHANGED lock_holder
    /\ UNCHANGED <<GLOBAL_POOL, th_pool, tuning, tune_runs, pools>>
    /\ UNCHANGED <<GLOBAL_SCHEDULER, BEST_WORKERS, BEST_CHUNK_SIZE, tune_result>>
    /\ AppOthersUnchanged

\* Line 61: tune_short() is entered.
TuneStart ==
  \E t \in Threads :
    /\ th_pc[t] = "l61"
    /\ tuning' = tuning \cup {t}
    /\ tune_runs' = tune_runs + 1
    /\ th_pc' = [th_pc EXCEPT ![t] = "tuning"]
    /\ UNCHANGED <<GLOBAL_POOL, lock_holder, th_pool, pools>>
    /\ UNCHANGED <<GLOBAL_SCHEDULER, BEST_WORKERS, BEST_CHUNK_SIZE, tune_result>>
    /\ AppOthersUnchanged

\* Lines 61-66: tune_short() returns and lines 62-63 store its result, or it
\* raises and the handler goes on with the defaults.
TuneEnd ==
  \E t \in Threads :
    /\ th_pc[t] = "tuning"
    /\ tuning' = tuning \ {t}
    /\ th_pc' = [th_pc EXCEPT ![t] = "l69"]
    /\ UNCHANGED <<GLOBAL_POOL, lock_holder, th_pool, tune_runs, pools>>
    /\ \/ \E res \in TuneResults :
            /\ BEST_WORKERS' = res.best_workers
            /\ BEST_CHUNK_SIZE' = res.best_chunk
            /\ tune_result' = res
       \/ /\ tune_result' = TuneRaised
          /\ UNCHANGED <<BEST_WORKERS, BEST_CHUNK_SIZE>>
    /\ UNCHANGED GLOBAL_SCHEDULER
    /\ AppOthersUnchanged

\* Line 69, right-hand side: ProcessPoolExecutor(max_workers=BEST_WORKERS)
ConstructPool ==
  \E t \in Threads :
    /\ th_pc[t] = "l69"
    /\ pools' = pools + 1
    /\ th_pool' = [th_pool EXCEPT ![t] = pools + 1]
    /\ th_pc' = [th_pc EXCEPT ![t] = "store"]
    /\ UNCHANGED <<GLOBAL_POOL, lock_holder, tuning, tune_runs>>
    /\ UNCHANGED <<GLOBAL_SCHEDULER, BEST_WORKERS, BEST_CHUNK_SIZE, tune_result>>
    /\ AppOthersUnchanged

\* Line 69, the assignment to GLOBAL_POOL.
PublishPool ==
  \E t \in Threads :
    /\ th_pc[t] = "store"
    /\ GLOBAL_POOL' = th_pool[t]
    /\ th_pool' = [th_pool EXCEPT ![t] = NoPool]
    /\ th_pc' = [th_pc EXCEPT ![t] = "l70"]
    /\ UNCHANGED <<lock_holder, tuning, tune_runs, pools>>
    /\ UNCHANGED <<GLOBAL_SCHEDULER, BEST_WORKERS, BEST_CHUNK_SIZE, tune_result>>
    /\ AppOthersUnchanged

\* Line 70: GLOBAL_SCHEDULER = SchedulerPlus(...), and the end of the with
\* block.
Release ==
  \E t \in Threads :
    /\ th_pc[t] = "l70"
    /\ lock_holder' = 0
    /\ th_pc' = [th_pc EXCEPT ![t] = "done"]
    /\ UNCHANGED <<GLOBAL_POOL, th_pool, tuning, tune_runs, pools>>
    /\ GLOBAL_SCHEDULER' = 1
    /\ UNCHANGED <<BEST_WORKERS, BEST_CHUNK_SIZE, tune_result>>
    /\ AppOthersUnchanged

(***************************************************************************)
(* Counter blocks of the chunk workers (chunked_ctr.py 25-38) for the files *)
(* run_encrypt sends to the chunked engine (cli_plus.py 108-127).           *)
(***************************************************************************)
\* How many leading blocks of a chunk are followed.
KsWindow == 3
KsSizes == {16 * MiB, 20 * MiB, 64 * MiB}
KsWorkers == {1, 4}

\* The counter block of block b of chunk idx: modes.CTR(nonce) starts at the
\* chunk nonce and adds one per 16-byte block.
CounterBlock(bn, idx, b) == CtrAdd(_chunk_nonce(bn, idx), b)

BlocksOf(length) == (length + AES_BLOCK - 1) \div AES_BLOCK

KsInit ==
  /\ ks_size \in KsSizes
  /\ ks_workers \in KsWorkers
  /\ ks_nonce \in BaseNonces
  /\ ks_chunk = 0
  /\ ks_used = <<>>
  /\ ks_pc = "init"

KsIdle ==
  /\ ks_size = 0
  /\ ks_workers = 0
  /\ ks_nonce = <<>>
  /\ ks_chunk = 0
  /\ ks_used = <<>>
  /\ ks_pc = "off"

KsOthersUnchanged ==
  /\ UNCHANGED <<cvars, wvars, vvars, pvars, drvars, runvars, appvars, rdvars>>

\* run_encrypt, lines 116-127: the elastic chunk size goes to
\* encrypt_file_chunked.
KsStart ==
  /\ ks_pc = "init"
  /\ IsHeavy(ks_size, "ctr")
  /\ ks_chunk' = _calculate_elastic_chunk_size(ks_size, ks_workers)
  /\ ks_pc' = "running"
  /\ UNCHANGED <<ks_size, ks_workers, ks_nonce, ks_used>>
  /\ KsOthersUnchanged

\* _worker_encrypt_chunk_mmap for the next task of lines 70-74: one CTR
\* encryptor over mm[offset : offset + length].
KsWorker ==
  /\ ks_pc = "running"
  /\ Len(ks_used) < ChunkCount(ks_size, ks_chunk)
  /\ LET idx == Len(ks_used)
         n == BlocksOf(TaskLength(idx, ks_chunk, ks_size))
     IN ks_used' = Append(ks_used,
                          [b \in 1..Min(n, KsWindow) |->
                             CounterBlock(ks_nonce, idx, b - 1)])
  /\ UNCHANGED <<ks_size, ks_workers, ks_nonce, ks_chunk, ks_pc>>
  /\ KsOthersUnchanged

(***************************************************************************)
(* run_decrypt with executor and use_processes set (cli_plus.py 149-154):   *)
(* one task per file goes to the pool given, and decrypt_file_chunked, run  *)
(* as such a task, submits its chunk tasks to the pool it got as argument   *)
(* (chunked_ctr.py 255-256) and waits for them (265).                       *)
(***************************************************************************)
MaxDecFiles == 2
MaxPoolWorkers == 2
\* Chunks per chunked file.
DecChunks == 2
PoolKinds == {"process", "thread"}
DecFileLists == UNION {[1..n -> {"chunked", "whole"}] : n \in 0..MaxDecFiles}

Idle == [type |-> "idle", file |-> 0, idx |-> 0]
FileTask(f) == [type |-> "file", file |-> f, idx |-> 0]
ChunkTask(f, i) == [type |-> "chunk", file |-> f, idx |-> i]

\* A process pool pickles the arguments of a task; the executor itself, an
\* argument of the decrypt_file_chunked task (line 182), cannot be pickled
\* and the future fails.  A thread pool runs the task with the arguments as
\* they are.
ArgsReachWorker(kind, file_kind) == kind = "thread" \/ file_kind = "whole"

RdInit ==
  /\ rd_kind \in PoolKinds
  /\ rd_W \in 1..MaxPoolWorkers
  /\ rd_files \in DecFileLists
  /\ rd_next = 1
  /\ rd_queue = <<>>
  /\ rd_worker = [w \in 1..rd_W |-> Idle]
  /\ rd_fstate = [f \in 1..Len(rd_files) |-> "none"]
  /\ rd_got = [f \in 1..Len(rd_files) |-> 0]
  /\ rd_pc = "submit"

RdIdle ==
  /\ rd_kind = ""
  /\ rd_W = 0
  /\ rd_files = <<>>
  /\ rd_next = 1
  /\ rd_queue = <<>>
  /\ rd_worker = <<>>
  /\ rd_fstate = <<>>
  /\ rd_got = <<>>
  /\ rd_pc = "off"

RdOthersUnchanged ==
  /\ UNCHANGED <<cvars, wvars, vvars, pvars, drvars, runvars, appvars, ksvars>>

\* Lines 151-152 and _submit_decrypt_task: one executor.submit per file.
RdSubmit ==
  /\ rd_pc = "submit"
  /\ rd_next <= Len(rd_files)
  /\ IF ArgsReachWorker(rd_kind, rd_files[rd_next])
     THEN /\ rd_queue' = Append(rd_queue, FileTask(rd_next))
          /\ rd_fstate' = [rd_fstate EXCEPT ![rd_next] = "queued"]
     ELSE /\ rd_fstate' = [rd_fstate EXCEPT ![rd_next] = "failed"]
          /\ UNCHANGED rd_queue
  /\ rd_next' = rd_next + 1
  /\ UNCHANGED <<rd_kind, rd_W, rd_files, rd_worker, rd_got, rd_pc>>
  /\ RdOthersUnchanged

\* Line 153: the submit loop is over, as_completed(futures) begins.
RdSubmitted ==
  /\ rd_pc = "submit"
  /\ rd_next > Len(rd_files)
  /\ rd_pc' = "collect"
  /\ UNCHANGED <<rd_kind, rd_W, rd_files, rd_next, rd_queue, rd_worker, rd_fstate,
                 rd_got>>
  /\ RdOthersUnchanged

\* A worker of the pool that runs nothing takes the oldest work item.
RdTake ==
  \E w \in DOMAIN rd_worker :
    /\ rd_worker[w] = Idle
    /\ Len(rd_queue) > 0
    /\ rd_worker' = [rd_worker EXCEPT ![w] = rd_queue[1]]
    /\ rd_queue' = Tail(rd_queue)
    /\ rd_fstate' = IF rd_queue[1].type = "file"
                    THEN [rd_fstate EXCEPT ![rd_queue[1].file] = "running"]
                    ELSE rd_fstate
    /\ UNCHANGED <<rd_kind, rd_W, rd_files, rd_next, rd_got, rd_pc>>
    /\ RdOthersUnchanged

\* decrypt_file (whole-file engine) as a pool task: it returns or raises.
RdWholeFile ==
  \E w \in DOMAIN rd_worker :
    /\ rd_worker[w].type = "file"
    /\ rd_files[rd_worker[w].file] = "whole"
    /\ \E r \in {"done", "failed"} :
         rd_fstate' = [rd_fstate EXCEPT ![rd_worker[w].file] = r]
    /\ rd_worker' = [rd_worker EXCEPT ![w] = Idle]
    /\ UNCHANGED <<rd_kind, rd_W, rd_files, rd_next, rd_queue, rd_got, rd_pc>>
    /\ RdOthersUnchanged

\* decrypt_file_chunked as a pool task, lines 174-256: it raises before any
\* submit, or submits its chunk tasks to the executor it was given.
RdChunkedStart ==
  \E w \in DOMAIN rd_worker :
    LET f == rd_worker[w].file
    IN /\ rd_worker[w].type = "file"
       /\ rd_files[f] = "chunked"
       /\ rd_fstate[f] = "running"
       /\ \/ /\ rd_fstate' = [rd_fstate EXCEPT ![f] = "failed"]
             /\ rd_worker' = [rd_worker EXCEPT ![w] = Idle]
             /\ UNCHANGED rd_queue
          \/ /\ rd_fstate' = [rd_fstate EXCEPT ![f] = "waiting"]
             /\ rd_queue' = rd_queue \o [i \in 1..DecChunks |-> ChunkTask(f, i - 1)]
             /\ UNCHANGED rd_worker
       /\ UNCHANGED <<rd_kind, rd_W, rd_files, rd_next, rd_got, rd_pc>>
       /\ RdOthersUnchanged

\* _worker_decrypt_chunk as a pool task.
RdChunk ==
  \E w \in DOMAIN rd_worker :
    /\ rd_worker[w].type = "chunk"
    /\ rd_got' = [rd_got EXCEPT ![rd_worker[w].file] = @ + 1]
    /\ rd_worker' = [rd_worker EXCEPT ![w] = Idle]
    /\ UNCHANGED <<rd_kind, rd_W, rd_files, rd_next, rd_queue, rd_fstate, rd_pc>>
    /\ RdOthersUnchanged

\* Lines 264-274: as_completed(futures) has given every chunk; the output
\* is put in place and the task returns.
RdChunkedEnd ==
  \E w \in DOMAIN rd_worker :
    LET f == rd_worker[w].file
    IN /\ rd_worker[w].type = "file"
       /\ rd_fstate[f] = "waiting"
       /\ rd_got[f] = DecChunks
       /\ rd_fstate' = [rd_fstate EXCEPT ![f] = "done"]
       /\ rd_worker' = [rd_worker EXCEPT ![w] = Idle]
       /\ UNCHANGED <<rd_kind, rd_W, rd_files, rd_next, rd_queue, rd_got, rd_pc>>
       /\ RdOthersUnchanged

\* Lines 153-155: as_completed(futures) has given every file future.
RdCollected ==
  /\ rd_pc = "collect"
  /\ \A f \in DOMAIN rd_fstate : rd_fstate[f] \in {"done", "failed"}
  /\ rd_pc' = "done"
  /\ UNCHANGED <<rd_kind, rd_W, rd_files, rd_next, rd_queue, rd_worker, rd_fstate,
                 rd_got>>
  /\ RdOthersUnchanged

RunDecryptSteps ==
  \/ RdSubmit \/ RdSubmitted \/ RdTake \/ RdWholeFile \/ RdChunkedStart
  \/ RdChunk \/ RdChunkedEnd \/ RdCollected

(***************************************************************************)
(* Specifications.  Each starts one component and leaves the others idle.   *)
(***************************************************************************)
CIdle ==
  /\ src = <<>>
  /\ chunk_size = 1
  /\ key = <<>>
  /\ master = <<>>
  /\ base_nonce = <<>>
  /\ enc_pc = "off"
  /\ enc_pending = {}
  /\ tmp = NoFile
  /\ chunk_hmacs = <<>>
  /\ dst = NoFile
  /\ manifest = NoManifest
  /\ vault = [id \in KeyIds |-> NoRecord]
  /\ schema = FALSE
  /\ dst_before = NoFile
  /\ enc_err = ""
  /\ gc_enabled = TRUE
  /\ enc_ooo = FALSE
  /\ enc_nonce = <<>>
  /\ tamper = "none"
  /\ dec_master = <<>>
  /\ dec_pc = "off"
  /\ dec_err = ""
  /\ dec_key = <<>>
  /\ chunks_data = <<>>
  /\ dec_pending = {}
  /\ out_tmp = NoFile
  /\ out_path = NoFile
  /\ out_before = NoFile
  /\ dec_ooo = FALSE
  /\ dec_nonce = <<>>

PIdle == PrIdle /\ PlIdle /\ EIdle

DIdle == DrIdle /\ RunIdle /\ AppIdle /\ KsIdle /\ RdIdle

vars == <<cvars, wvars, vvars, pvars, dvars>>

\* The chunked engine: encrypt, then decrypt what it wrote.
Init == CInit /\ WIdle /\ VInit /\ PIdle /\ DIdle

Next == Encrypt \/ Decrypt \/ PlaceOutput

Spec == Init /\ [][Next]_vars

\* The chunked engine with the files changed between encrypt and decrypt.
Tamper == TamperCiphertext \/ TamperManifestHmac \/ TamperHeaderChunkSize \/ TamperTruncate

NextTamper == Next \/ Tamper

SpecTamper == Init /\ [][NextTamper]_vars

\* The chunked encryptor with failing workers and failing writes, over a
\* destination that may already exist.
OLD_CIPHERTEXT == <<111, 108, 100, 101, 114>>

InitFail ==
  /\ CInitCommon
  /\ dst \in {NoFile, File(OLD_CIPHERTEXT)}
  /\ dst_before = dst
  /\ WIdle
  /\ VInit
  /\ PIdle
  /\ DIdle

NextFail == Encrypt \/ EncFail

SpecFail == InitFail /\ [][NextFail]_vars

\* The whole-file engine.
InitWhole == CIdle /\ WInit /\ VInit /\ PIdle /\ DIdle

NextWhole == EncryptStream \/ MakeArchive \/ DecryptFile

SpecWhole == InitWhole /\ [][NextWhole]_vars

\* The vault.
InitVault == CIdle /\ WIdle /\ VInit /\ PIdle /\ DIdle

NextVault == InitSchema \/ StoreKey \/ LoadKey

SpecVault == InitVault /\ [][NextVault]_vars

\* The scheduler: plan over a list of files, under the rates the predictor
\* holds.
InitSched ==
  /\ CIdle /\ WIdle /\ VInit
  /\ PlInit /\ EIdle
  /\ type_rate \in PlanRates
  /\ rate_bps = FlFromInt(8 * MiB)
  /\ pr_seen = {sfx \in Suffixes : type_rate[sfx] # rate_bps}
  /\ pr_pc = "off"
  /\ pr_count = 0
  /\ pr_last = NoObserve
  /\ DIdle

NextSched == Plan

SpecSched == InitSched /\ [][NextSched]_vars

\* The predictor under observations.
InitPredict == CIdle /\ WIdle /\ VInit /\ PrInit /\ PlIdle /\ EIdle /\ DIdle

NextPredict == Observe

SpecPredict == InitPredict /\ [][NextPredict]_vars

\* The elastic chunk size.
InitElastic == CIdle /\ WIdle /\ VInit /\ PrIdle /\ PlIdle /\ EInit /\ DIdle

NextElastic == ElasticChunk

SpecElastic == InitElastic /\ [][NextElastic]_vars

\* The chunked engine with a manifest that was removed or a magic that was
\* changed before decrypt.
NextAbort == Encrypt \/ PlaceOutput \/ RemoveManifest \/ TamperMagic \/ Decrypt

SpecAbort == Init /\ [][NextAbort]_vars

\* One run of the driver.
InitDriver == CIdle /\ WIdle /\ VInit /\ PIdle /\ DrInit /\ RunIdle /\ AppIdle /\ KsIdle /\ RdIdle

NextDriver == RunEncryptSteps

SpecDriver == InitDriver /\ [][NextDriver]_vars

\* Runs of the driver one after another.
InitRuns == CIdle /\ WIdle /\ VInit /\ PIdle /\ DrIdle /\ RunInit /\ AppIdle /\ KsIdle /\ RdIdle

NextRuns == Tick \/ RunEncrypt

SpecRuns == InitRuns /\ [][NextRuns]_vars

\* Threads of the web application calling ensure_system_ready.
InitApp == CIdle /\ WIdle /\ VInit /\ PIdle /\ DrIdle /\ RunIdle /\ AppInit /\ KsIdle /\ RdIdle

NextApp ==
  \/ Call \/ FastCheck \/ Acquire \/ DoubleCheck \/ TuneStart \/ TuneEnd
  \/ ConstructPool \/ PublishPool \/ Release

SpecApp == InitApp /\ [][NextApp]_vars

(***************************************************************************)
(* Properties.                                                              *)
(***************************************************************************)
\* The number of chunks of the source, counted slot by slot.
NumChunks == Cardinality({p \in 0..(Len(src) - 1) : p % chunk_size = 0})

\* The bytes of the source that chunk i covers.
PlainChunk(i) ==
  SubSeq(src, i * chunk_size + 1, Min((i + 1) * chunk_size, Len(src)))

\* What slot i of a file holds: the prefix at 29 + i*(8+S) and the bytes the
\* prefix announces.
SlotPrefix(file, i) ==
  ReadAt(file.data, 29 + i * (8 + chunk_size), 8)

SlotCiphertext(file, i) ==
  ReadAt(file.data, 29 + i * (8 + chunk_size) + 8, FromBytesBE(SlotPrefix(file, i)))

DecEnded == dec_pc \in {"done", "failed"}

\* C1: when nothing was changed on disk and decrypt_file_chunked is given the
\* non-empty master secret that encrypt_file_chunked was given, it ends
\* without an exception and the output path holds exactly the bytes of the
\* source, for every length (0 and non-multiples of the chunk size included),
\* every chunk size and every order of completion on both sides.
C1_RoundTripChunked ==
  (DecEnded /\ tamper = "none" /\ master # <<>> /\ dec_master = master)
    => (dec_pc = "done" /\ out_path = File(src))

\* C1 witness: a 4-byte file in chunks of 3 (a short last chunk), results
\* taken out of order on both sides, decrypted to the source.
C1_Witness ==
  /\ dec_pc = "done"
  /\ master # <<>> /\ dec_master = master
  /\ Len(src) = 4 /\ chunk_size = 3
  /\ enc_ooo /\ dec_ooo
  /\ out_path = File(src)

\* C2: decrypt_file given the master secret encrypt_stream was given ends
\* without an exception and writes the bytes of the original file, in every
\* mode and for every length, longer than the read block included.
C2_RoundTripWhole ==
  (w_pc \in {"decrypted", "dec_failed"} /\ w_master # <<>> /\ w_dec_master = w_master)
    => (w_pc = "decrypted" /\ w_out = File(w_src))

\* C3: after a byte of some CIPHERTEXT_i was changed on disk,
\* decrypt_file_chunked never writes plaintext, never completes and leaves
\* the output path as it was.
C3_CiphertextTamperRejected ==
  (tamper = "ct" /\ dec_pc # "idle" /\ dec_master = master)
    => (dec_pc # "done" /\ out_tmp.data = <<>> /\ out_path = out_before)

\* C4: after an entry of the manifest's chunk_hmacs was altered,
\* decrypt_file_chunked fails.
C4_ManifestTamperRejected ==
  (tamper = "hmac" /\ DecEnded /\ dec_master = master) => dec_pc = "failed"

\* C5: load_key called with a master secret other than the one of the last
\* successful store_key of that id raises and returns no key.
C5_WrongMasterRejected ==
  (v_op.op = "load" /\ v_stored[v_op.id].present
     /\ v_op.master # v_stored[v_op.id].master)
    => (v_op.err # "" /\ v_op.raw = <<>>)

\* C6: the manifest has one tag per chunk, and entry i is the HMAC-SHA256
\* under the auth key of the ciphertext that slot i of the committed file
\* holds, whatever the order in which the results arrived.
C6_ManifestIntegrity ==
  manifest.exists =>
    /\ manifest.chunk_count = NumChunks
    /\ Len(manifest.chunk_hmacs) = manifest.chunk_count
    /\ \A i \in 0..(manifest.chunk_count - 1) :
         manifest.chunk_hmacs[i + 1]
           = HmacSha256(Sha256(key \o AUTH_LABEL), SlotCiphertext(dst, i))

\* C6 witness: a manifest of at least three tags written after results
\* arrived out of order.
C6_Witness ==
  /\ manifest.exists
  /\ manifest.chunk_count >= 3
  /\ enc_ooo

\* C7: in a committed file of more than one chunk, the 8 bytes at
\* 29 + i*(8+S) are the big-endian length of chunk i and the bytes after them
\* are chunk i's ciphertext, for every i below N and every arrival order.
C7_GridInvariant ==
  (dst.exists /\ NumChunks > 1) =>
    \A i \in 0..(NumChunks - 1) :
      /\ SlotPrefix(dst, i) = U64BE(Len(PlainChunk(i)))
      /\ SlotCiphertext(dst, i)
           = AesCtr(key, SubSeq(base_nonce, 1, 8) \o U64BE(i), PlainChunk(i))

\* C7 witness: a committed file of several chunks with a short last chunk,
\* written out of order.
C7_Witness ==
  /\ dst.exists
  /\ NumChunks >= 2
  /\ Len(src) % chunk_size # 0
  /\ enc_ooo

\* C8: the nonce of chunk i is the first 8 bytes of the base nonce followed
\* by u64_be(i), two chunks of a file never share the last 8 bytes, and the
\* nonce that decrypts chunk i is the nonce that encrypted it.
C8_NonceUniqueness ==
  /\ \A i \in 1..Len(enc_nonce) :
       enc_nonce[i] # <<>> =>
         /\ enc_nonce[i] = SubSeq(base_nonce, 1, 8) \o U64BE(i - 1)
         /\ \A j \in 1..Len(enc_nonce) :
              (j # i /\ enc_nonce[j] # <<>>)
                => SubSeq(enc_nonce[i], 9, 16) # SubSeq(enc_nonce[j], 9, 16)
  /\ \A i \in 1..Len(dec_nonce) :
       (tamper = "none" /\ dec_nonce[i] # <<>>) => dec_nonce[i] = enc_nonce[i]

\* C8 witness: a decrypt of at least three chunks taken out of order.
C8_Witness ==
  /\ dec_pc = "done"
  /\ Len(dec_nonce) >= 3
  /\ dec_ooo
  /\ \A i \in 1..Len(dec_nonce) : dec_nonce[i] # <<>>

\* C9: when the CHUNK_SIZE field of the header differs from the manifest's
\* chunk_size, decrypt_file_chunked fails and the output path is neither
\* created nor replaced.
C9_HeaderChunkSizeRejected ==
  (tamper = "hdr" /\ DecEnded /\ dec_master = master)
    => (dec_pc = "failed" /\ out_path = out_before)

\* C10: when the ciphertext file holds fewer chunk records than the
\* manifest's chunk_count, decrypt_file_chunked fails and the output path is
\* neither created nor replaced.
C10_TruncationRejected ==
  (tamper = "trunc" /\ DecEnded /\ dec_master = master)
    => (dec_pc = "failed" /\ out_path = out_before)

\* C11: as long as encrypt_file_chunked has not reached its os.replace, and
\* in particular once a worker or a write has failed after any number of
\* results in any order, the destination path holds what it held when encrypt
\* was called: nothing if it did not exist, the same bytes if it did.
C11_DestinationUntouched ==
  enc_pc \in {"init", "draining", "drained", "failed"} => dst = dst_before

\* C11 witness: a failure after some but not all results, taken out of order,
\* with a file already at the destination.
C11_Witness ==
  /\ enc_pc = "failed"
  /\ dst_before = File(OLD_CIPHERTEXT)
  /\ enc_pending # {}
  /\ \E i \in 1..Len(chunk_hmacs) : chunk_hmacs[i] # NoMac
  /\ enc_ooo
  /\ Len(tmp.data) > HEADER_SIZE

\* C12: after a failure in the drain loop no temp file is left.
C12_TempUnlinkedOnFailure ==
  enc_pc = "failed" => ~tmp.exists

\* C13: when store_key fails after the ciphertext and the manifest were
\* written, encrypt_file_chunked lets its caller see the failure.
C13_VaultFailureSurfaced ==
  (enc_pc = "vaulted" /\ store_key_raises(master)) => enc_err # ""

\* C14: when run_encrypt builds the archive, the ciphertext it puts into it
\* has a vault record under its key_id that unwraps under the run's master
\* secret to the file key.
C14_KeyVaultedBeforeArchive ==
  (w_archive.exists /\ "enc" \in w_archive.files) =>
    /\ vault[w_meta.key_id].present
    /\ LET row == vault[w_meta.key_id]
           dec == _aes_cbc_decrypt(_kdf(w_master, row.salt), row.iv, row.wrapped_key)
       IN dec.err = "" /\ dec.value = w_key

\* C15: each id has a record exactly when a store_key for it succeeded, and
\* load_key under the master of the last successful store_key of an id
\* returns that call's raw key and mode, whatever was stored before for this
\* id and whatever is stored for the other ids.
C15_StoreLoadRoundTrip ==
  /\ \A id \in KeyIds :
       /\ vault[id].present = v_stored[id].present
       /\ v_stored[id].present =>
            LET l == load_key(schema, vault, id, v_stored[id].master)
            IN /\ l.err = ""
               /\ l.raw = v_stored[id].raw
               /\ l.mode = v_stored[id].mode
  /\ (v_op.op = "load" /\ v_stored[v_op.id].present
        /\ v_op.master = v_stored[v_op.id].master)
       => /\ v_op.err = ""
          /\ v_op.raw = v_stored[v_op.id].raw
          /\ v_op.mode = v_stored[v_op.id].mode

\* C15 witness: a load that returns the key of a store which replaced an
\* earlier record of that id, while the other id holds a different key.
C15_Witness ==
  /\ v_op.op = "load"
  /\ v_op.err = ""
  /\ v_stored[v_op.id].replaced
  /\ v_op.master = v_stored[v_op.id].master
  /\ v_op.raw = v_stored[v_op.id].raw
  /\ \E other \in KeyIds \ {v_op.id} :
       v_stored[other].present /\ v_stored[other].raw # v_op.raw

\* C16: a call with an empty master raises and returns nothing, a rejected
\* store leaves no record behind, and load_key of an id that has no record
\* raises the not-found error (KeyError).
C16_VaultInputErrors ==
  /\ (v_op.op \in {"store", "load"} /\ v_op.master = <<>>)
       => (v_op.err # "" /\ v_op.raw = <<>>)
  /\ \A id \in KeyIds : vault[id].present = v_stored[id].present
  /\ (v_op.op = "load" /\ v_op.master # <<>> /\ ~v_stored[v_op.id].present)
       => v_op.err = "KeyError"

\* The files of a plan are the files given, each once.
PlanIsPermutation ==
  /\ Len(pl_plan) = Len(pl_files)
  /\ {pl_plan[i].path : i \in 1..Len(pl_plan)} = 1..Len(pl_files)
  /\ \A i \in 1..Len(pl_plan) :
       /\ pl_plan[i].size = pl_files[pl_plan[i].path].size
       /\ pl_plan[i].suffix = pl_files[pl_plan[i].path].suffix

TotalSize == SumSizes(pl_files)

\* C17: for a non-empty list whose sizes sum to less than 10 MiB, plan
\* returns the files in ascending size, files of equal size in input order,
\* whatever rates the predictor holds.
C17_SjfGate ==
  (pl_pc = "planned" /\ Len(pl_files) > 0 /\ TotalSize < 10 * 1024 * 1024) =>
    /\ PlanIsPermutation
    /\ \A i, j \in 1..Len(pl_plan) :
         i < j => \/ pl_plan[i].size < pl_plan[j].size
                  \/ /\ pl_plan[i].size = pl_plan[j].size
                     /\ pl_plan[i].path < pl_plan[j].path

\* C17 witness: a planned small batch of at least three files that was not
\* given in ascending size and has two files of one size, under rates that
\* differ between the suffixes.
C17_Witness ==
  /\ pl_pc = "planned"
  /\ Len(pl_files) >= 3
  /\ TotalSize < 10 * 1024 * 1024
  /\ \E i, j \in 1..Len(pl_files) : i < j /\ pl_files[i].size > pl_files[j].size
  /\ \E i, j \in 1..Len(pl_files) :
       i < j /\ pl_files[i].size = pl_files[j].size
             /\ pl_files[i].suffix # pl_files[j].suffix
  /\ type_rate[".a"] # type_rate[".b"]

\* C18: for a list whose sizes sum to at least 10 MiB, plan returns the files
\* in ascending predict(size, suffix), files of equal priority in input
\* order.
C18_PriorityOrder ==
  (pl_pc = "planned" /\ TotalSize >= 10 * 1024 * 1024) =>
    /\ PlanIsPermutation
    /\ \A i, j \in 1..Len(pl_plan) :
         i < j =>
           LET pi == predict(type_rate, pl_plan[i].size, pl_plan[i].suffix)
               pj == predict(type_rate, pl_plan[j].size, pl_plan[j].suffix)
           IN \/ FlLt(pi, pj)
              \/ pi = pj /\ pl_plan[i].path < pl_plan[j].path

\* The rate of the observed suffix before the last observe, the rate that
\* call observed, and the rate after it.
PrevRate == pr_last.prev
ObsRate == pr_last.observed
NewRate == type_rate[pr_last.suffix]
PredictAt(rate, size) == predict([sfx \in Suffixes |-> rate], size, pr_last.suffix)

\* C19, as it holds: after observe the new rate is the floating-point value
\* of (1-alpha)*r + alpha*observed; when the observed rate is greater than r
\* the new rate is not smaller than r and no predict for that suffix is
\* larger than before; when it is less than r the new rate is not greater
\* and no predict is smaller than before.
C19_PredictorMonotone ==
  pr_count > 0 =>
    /\ NewRate = FlAdd(FlMul(FlLiteral(3, 4, MantBits + 4), PrevRate),
                       FlMul(FlLiteral(1, 4, MantBits + 4), ObsRate))
    /\ FlLt(PrevRate, ObsRate) =>
         /\ FlLe(PrevRate, NewRate)
         /\ \A sz \in PredictSizes : FlLe(PredictAt(NewRate, sz), PredictAt(PrevRate, sz))
    /\ FlLt(ObsRate, PrevRate) =>
         /\ FlLe(NewRate, PrevRate)
         /\ \A sz \in PredictSizes : FlLe(PredictAt(PrevRate, sz), PredictAt(NewRate, sz))

\* C19 witness: a second observe on a suffix whose observed rate is greater
\* than the rate it had, after which the predictions are strictly smaller.
C19_Witness ==
  /\ pr_count = 2
  /\ FlLt(PrevRate, ObsRate)
  /\ FlLe(FlOne, PrevRate)
  /\ \A sz \in PredictSizes : FlLt(PredictAt(NewRate, sz), PredictAt(PrevRate, sz))

\* C19 as stated: when the observed rate is greater than r every next
\* predict is strictly smaller than before, and when it is less than r
\* strictly larger, as long as the rates are at least 1.
C19_StrictlyMonotone ==
  (pr_count > 0 /\ FlLe(FlOne, PrevRate) /\ FlLe(FlOne, NewRate)) =>
    /\ FlLt(PrevRate, ObsRate) =>
         \A sz \in PredictSizes : FlLt(PredictAt(NewRate, sz), PredictAt(PrevRate, sz))
    /\ FlLt(ObsRate, PrevRate) =>
         \A sz \in PredictSizes : FlLt(PredictAt(PrevRate, sz), PredictAt(NewRate, sz))

\* C20: _calculate_elastic_chunk_size returns a multiple of 16 between 1 MiB
\* and 64 MiB, for every file size and every worker count of at least 1.
C20_ElasticChunkBounds ==
  el_pc = "done" =>
    /\ el_chunk >= 1048576
    /\ el_chunk <= 67108864
    /\ el_chunk % 16 = 0

\* C20 witness: a size whose ideal chunk lies strictly inside the range and
\* is not a multiple of 16.
C20_Witness ==
  /\ el_pc = "done"
  /\ el_size \div (4 * el_workers) > 1048576
  /\ el_size \div (4 * el_workers) < 67108864
  /\ (el_size \div (4 * el_workers)) % 16 # 0
  /\ el_chunk = ((el_size \div (4 * el_workers)) \div 16) * 16

\* The 20 MiB files of a run in CTR mode with 4 workers whose ciphertext is
\* committed.
S2Files ==
  {i \in 1..Len(dr_outdir) :
     /\ dr_files[i].size = 20 * 1024 * 1024
     /\ dr_mode \in {"ctr", "CTR"}
     /\ dr_workers = 4
     /\ dr_outdir[i].kind = "enc"}

\* C21, as it holds: a 20 MiB file encrypted in CTR mode through the driver
\* with W = 4 gets the elastic chunk size 20 MiB / 16 = 1310720 bytes, N = 16
\* chunks, an output of length 29 + 15*(8 + 1310720) + 8 + 1310720, and a
\* manifest with 16 HMAC entries.
C21_ScenarioS2 ==
  \A i \in S2Files :
    /\ dr_outdir[i].engine = "chunked"
    /\ dr_outdir[i].chunk_size = 1310720
    /\ dr_outdir[i].chunk_count = 16
    /\ dr_outdir[i].length = 29 + 15 * (8 + 1310720) + 8 + 1310720
    /\ dr_outdir[i].hmacs = 16

\* C21 witness: a finished run that committed a 20 MiB file in CTR mode.
C21_Witness ==
  /\ dr_pc = "archived"
  /\ S2Files # {}

\* C21 as stated: the elastic chunk size is 1 MiB, N = 20, the output has
\* length 29 + 19*(8 + 1 MiB) + 8 + 1 MiB and the manifest 20 HMAC entries.
C21_ScenarioS2AsStated ==
  \A i \in S2Files :
    /\ dr_outdir[i].chunk_size = 1048576
    /\ dr_outdir[i].chunk_count = 20
    /\ dr_outdir[i].length = 29 + 19 * (8 + 1048576) + 8 + 1048576
    /\ dr_outdir[i].hmacs = 20

\* The run has ended, by its return or by an exception.
DrEnded == dr_pc \in {"archived", "aborted"}

LoggedPaths == {dr_log[k].path : k \in 1..Len(dr_log)}

\* C22: when a run over at least one file has ended, every planned file was
\* given to an engine, whether or not other files raised; every file whose
\* engine call returned has its ciphertext in the output directory; and the
\* archive was produced and holds those ciphertexts.
C22_PerFileIsolation ==
  (DrEnded /\ Len(dr_files) > 0) =>
    /\ \A i \in 1..Len(dr_plan) : dr_plan[i].path \in LoggedPaths
    /\ \A k \in 1..Len(dr_log) :
         dr_log[k].ok => /\ dr_outdir[dr_log[k].path].kind = "enc"
                         /\ <<dr_log[k].path, "enc">> \in dr_archive.files
    /\ dr_archive.exists

\* C22 witness: a finished run in which an engine call raised and left its
\* temp file, and the file after it was encrypted by the other engine and
\* archived.
C22_Witness ==
  /\ dr_pc = "archived"
  /\ \E j, n \in 1..Len(dr_log) :
       /\ j < n
       /\ ~dr_log[j].ok
       /\ dr_outdir[dr_log[j].path].kind = "tmp"
       /\ dr_log[n].ok
       /\ dr_log[n].engine # dr_log[j].engine
       /\ <<dr_log[n].path, "enc">> \in dr_archive.files

\* C23: however the threads calling ensure_system_ready interleave,
\* tune_short is called at most once, no two threads are inside it together,
\* at most one process pool is created, the shared pool is that one, and when
\* every thread that called has returned exactly one pool exists and is
\* published.
C23_SingleInitialisation ==
  /\ tune_runs <= 1
  /\ Cardinality(tuning) <= 1
  /\ pools <= 1
  /\ GLOBAL_POOL # 0 => (GLOBAL_POOL = 1 /\ pools = 1)
  /\ (\E t \in DOMAIN th_pc : th_pc[t] = "done") => (GLOBAL_POOL = 1 /\ pools = 1)

\* C23 witness: a thread that saw no pool at the fast check holds the lock at
\* the second check after another thread has published the pool, while a
\* third thread has not yet called.
C23_Witness ==
  /\ GLOBAL_POOL = 1
  /\ tune_runs = 1
  /\ \E t, u \in DOMAIN th_pc :
       /\ th_pc[t] = "l55" /\ lock_holder = t
       /\ th_pc[u] = "done"

\* C24: the runs made so far have pairwise distinct key ids, and every
\* ciphertext in every output directory is decryptable: the vault holds,
\* under the key_id of its manifest, the key it was encrypted with.
C24_KeyIdUniqueness ==
  /\ \A i, j \in 1..Len(run_log) :
       i # j => run_log[i].key_id # run_log[j].key_id
  /\ \A o \in DOMAIN run_outdirs : \A d \in DOMAIN run_outdirs[o] :
       run_outdirs[o][d].key # 0 =>
         run_vault[run_outdirs[o][d].key_id] = run_outdirs[o][d].key

\* The chunk count the format prescribes: ceil(F/S), and 1 for an empty
\* file.
FormatChunks == IF Len(src) = 0 THEN 1 ELSE NumChunks

\* The length of the terminal chunk.
LastLength == Len(src) - (FormatChunks - 1) * chunk_size

EncCommitted == enc_pc \in {"committed", "manifested", "vaulted"}

\* C25: for every file length, chunk size and order of arrival, the committed
\* file has length 29 + (N-1)*(8+S) + 8 + length_{N-1}, and every byte from
\* offset 29 to the end lies in exactly one chunk record.
C25_CommittedLength ==
  (EncCommitted /\ tamper = "none") =>
    /\ Len(dst.data) = 29 + (FormatChunks - 1) * (8 + chunk_size) + 8 + LastLength
    /\ \A p \in 29..(Len(dst.data) - 1) :
         Cardinality({i \in 0..(FormatChunks - 1) :
                        /\ 29 + i * (8 + chunk_size) <= p
                        /\ p < 29 + i * (8 + chunk_size) + 8 + Len(SlotCiphertext(dst, i))})
           = 1

\* C26: for an empty source, encrypt_file_chunked writes one terminal slot
\* with length prefix 0 and no ciphertext, and the manifest records
\* chunk_count = 1 with one chunk_hmacs entry, the HMAC of the empty
\* ciphertext.
C26_ZeroLengthInput ==
  (enc_pc \in {"manifested", "vaulted"} /\ tamper = "none" /\ Len(src) = 0) =>
    /\ Len(dst.data) = 29 + 8
    /\ SlotPrefix(dst, 0) = U64BE(0)
    /\ manifest.chunk_count = 1
    /\ manifest.chunk_hmacs = <<HmacSha256(_derive_auth_key(key), <<>>)>>

\* The temp file holds the header and every chunk record.
TmpComplete ==
  /\ ReadAt(tmp.data, 0, 29) = HEADER_MAGIC \o base_nonce \o U64BE(chunk_size)
  /\ \A i \in 0..(NumChunks - 1) :
       /\ SlotPrefix(tmp, i) = U64BE(Len(PlainChunk(i)))
       /\ Len(SlotCiphertext(tmp, i)) = Len(PlainChunk(i))

\* C27: in every step of encrypt_file_chunked the destination changes only
\* by the rename of a temp file that holds the header and all N records; the
\* manifest is written only after the rename; the vault is called only after
\* the manifest was written; and the positions follow one another in the
\* order init, draining, drained, committed, manifested, vaulted, or end in
\* failed before the rename.
C27_CommitOrdering ==
  [][/\ dst' # dst => (enc_pc = "drained" /\ enc_pending = {} /\ TmpComplete
                        /\ dst' = tmp /\ enc_pc' = "committed")
     /\ manifest' # manifest => (enc_pc = "committed" /\ dst # dst_before
                                  /\ enc_pc' = "manifested")
     /\ (vault' # vault \/ schema' # schema) =>
          (enc_pc = "manifested" /\ manifest.exists /\ enc_pc' = "vaulted")
     /\ enc_pc' # enc_pc =>
          <<enc_pc, enc_pc'>> \in {<<"init", "draining">>, <<"draining", "drained">>,
                                   <<"drained", "committed">>,
                                   <<"committed", "manifested">>,
                                   <<"manifested", "vaulted">>,
                                   <<"init", "failed">>, <<"draining", "failed">>}
    ]_vars

\* C27 witness: a run that reached the vault after taking the results of
\* several chunks out of order.
C27_Witness ==
  /\ enc_pc = "vaulted"
  /\ vault[KEY_ID].present
  /\ manifest.exists
  /\ NumChunks >= 2
  /\ enc_ooo

\* C28: once encrypt_file_chunked has left its try block, by the end of the
\* drain loop, by a worker exception, or by a failure opening or writing the
\* temp file, garbage collection is enabled.
C28_GcRestored ==
  enc_pc \in {"drained", "committed", "manifested", "vaulted", "failed"} => gc_enabled

\* C28 witness: the call ended by an exception raised while writing a
\* record, after a result had been taken with gc disabled.
C28_Witness ==
  /\ enc_pc = "failed"
  /\ enc_err = "OSError"
  /\ Len(tmp.data) > HEADER_SIZE
  /\ gc_enabled

\* C29: when the manifest does not exist or the first 5 bytes of the file
\* are not the magic, decrypt_file_chunked raises, no decrypt task was
\* submitted, no temp output was created, and the output path is as it was.
C29_DecryptAbortsCleanly ==
  (tamper \in {"nomanifest", "magic"} /\ dec_pc \notin {"idle", "off"}) =>
    /\ dec_pc = "failed"
    /\ dec_err # ""
    /\ dec_pending = {}
    /\ dec_nonce = <<>>
    /\ chunks_data = <<>>
    /\ ~out_tmp.exists
    /\ out_path = out_before

\* C29 witness: decrypt, given the right master secret, raised on a changed
\* magic with a file already at the output path.
C29_Witness ==
  /\ tamper = "magic"
  /\ dec_pc = "failed"
  /\ dec_master = master
  /\ dec_err = "ValueError: invalid header"
  /\ out_path = File(OLD_OUTPUT)

\* C30: every engine call of a run is for a different file; the call goes to
\* the chunked engine exactly when the file has at least 16 MiB and the mode
\* is CTR in any letter case, else to the whole-file engine; and when the run
\* has ended every planned file has had its call.
C30_DriverPartition ==
  /\ \A j, k \in 1..Len(dr_log) : j # k => dr_log[j].path # dr_log[k].path
  /\ \A k \in 1..Len(dr_log) :
       /\ dr_log[k].engine \in {"chunked", "whole"}
       /\ dr_log[k].engine = "chunked" <=>
            (dr_files[dr_log[k].path].size >= 16777216 /\ dr_mode \in {"ctr", "CTR"})
  /\ dr_pc = "archived" =>
       /\ Len(dr_log) = Len(dr_files)
       /\ {dr_plan[i].path : i \in 1..Len(dr_plan)} = 1..Len(dr_files)
       /\ LoggedPaths = 1..Len(dr_files)

\* C30 witness: a finished run in upper-case CTR mode with a file of exactly
\* 16 MiB given to the chunked engine and a smaller one given to the
\* whole-file engine.
C30_Witness ==
  /\ dr_pc = "archived"
  /\ dr_mode = "CTR"
  /\ \E j, k \in 1..Len(dr_log) :
       /\ dr_log[j].engine = "chunked" /\ dr_log[j].size = 16777216
       /\ dr_log[k].engine = "whole" /\ dr_log[k].size < 16777216

(***************************************************************************)
(* C31  Per-suffix independence of the predictor: a suffix observe was      *)
(* never called with still predicts size / max(1, base) with the rate       *)
(* estimated at construction, and an observe call leaves the rate of every  *)
(* suffix other than its own unchanged.                                     *)
(***************************************************************************)
BasePredict(size) == FlDiv(FlFromInt(size), FlMax(FlOne, rate_bps))

C31_PerSuffixIndependence ==
  /\ [](\A sfx \in Suffixes \ pr_seen : \A size \in PredictSizes :
          predict(type_rate, size, sfx) = BasePredict(size))
  /\ [][/\ rate_bps' = rate_bps
        /\ \A sfx \in Suffixes :
             sfx # pr_last'.suffix => type_rate'[sfx] = type_rate[sfx]]_vars

\* Two observations of one suffix have moved its rate; the other suffix was
\* never observed.
C31_Witness ==
  /\ pr_count = 2
  /\ pr_seen = {".a"}
  /\ type_rate[".a"] # rate_bps
  /\ \A size \in PredictSizes : predict(type_rate, size, ".b") = BasePredict(size)

\* The counter blocks of one chunked encryption.
InitKeystream == CIdle /\ WIdle /\ VInit /\ PIdle /\ DrIdle /\ RunIdle /\ AppIdle /\ KsInit /\ RdIdle

NextKeystream == KsStart \/ KsWorker

SpecKeystream == InitKeystream /\ [][NextKeystream]_vars

(***************************************************************************)
(* C32  No keystream reuse between chunks: within one chunked output, no    *)
(* counter block used for a block of chunk i equals a counter block used    *)
(* for a block of another chunk j, for every chunk size the driver chooses. *)
(***************************************************************************)
C32_NoKeystreamReuse ==
  \A i \in 1..Len(ks_used), j \in 1..Len(ks_used) :
    i # j =>
      \A b \in 1..Len(ks_used[i]), c \in 1..Len(ks_used[j]) :
        ks_used[i][b] # ks_used[j][c]

(***************************************************************************)
(* C33  Initialisation is complete when observed: under every interleaving  *)
(* of threads calling ensure_system_ready, once a call has returned, by the *)
(* fast path or by the locked path, the shared pool and the shared          *)
(* scheduler are initialised and BEST_WORKERS and BEST_CHUNK_SIZE hold the  *)
(* values the tuner gave (the defaults when it raised).                     *)
(***************************************************************************)
C33_InitialisationComplete ==
  \A t \in DOMAIN th_pc :
    th_pc[t] = "done" =>
      /\ GLOBAL_POOL # NoPool
      /\ GLOBAL_SCHEDULER # NoScheduler
      /\ tune_result # NoTune
      /\ tuning = {}
      /\ tune_result.status = "ok" =>
           /\ BEST_WORKERS = tune_result.best_workers
           /\ BEST_CHUNK_SIZE = tune_result.best_chunk
      /\ tune_result.status = "raised" =>
           /\ BEST_WORKERS = DEFAULT_WORKERS
           /\ BEST_CHUNK_SIZE = DEFAULT_CHUNK_SIZE

(***************************************************************************)
(* C34  Plan is a permutation: for every list of files, in the SJF branch   *)
(* and in the predicted-priority branch and under every predictor state,    *)
(* plan returns each input file exactly once, and the empty plan for the    *)
(* empty list.                                                              *)
(***************************************************************************)
C34_PlanIsPermutation ==
  pl_pc = "planned" =>
    /\ Len(pl_plan) = Len(pl_files)
    /\ \A p \in 1..Len(pl_files) :
         Cardinality({i \in 1..Len(pl_plan) : pl_plan[i].path = p}) = 1
    /\ \A i \in 1..Len(pl_plan) :
         /\ pl_plan[i].path \in 1..Len(pl_files)
         /\ pl_plan[i].size = pl_files[pl_plan[i].path].size
         /\ pl_plan[i].suffix = pl_files[pl_plan[i].path].suffix
    /\ pl_files = <<>> => pl_plan = <<>>

\* A planned batch of four files in the predicted-priority branch whose plan
\* is not the input order and in which two files have the same size and
\* suffix.
C34_Witness ==
  /\ pl_pc = "planned"
  /\ Len(pl_files) = 4
  /\ SumSizes(pl_files) >= SJF_THRESHOLD
  /\ \E i \in 1..Len(pl_plan) : pl_plan[i].path # i
  /\ \E i, j \in 1..Len(pl_files) :
       i < j /\ pl_files[i].size = pl_files[j].size
             /\ pl_files[i].suffix = pl_files[j].suffix

\* run_decrypt on a given pool; every step that can be taken is eventually
\* taken.
InitDecryptPool ==
  CIdle /\ WIdle /\ VInit /\ PIdle /\ DrIdle /\ RunIdle /\ AppIdle /\ KsIdle /\ RdInit

NextDecryptPool == RunDecryptSteps

SpecDecryptPool ==
  InitDecryptPool /\ [][NextDecryptPool]_vars /\ WF_vars(NextDecryptPool)

(***************************************************************************)
(* C35  Decrypt driver terminates on the shared pool: with the per-file     *)
(* tasks and their chunk tasks on one pool, run_decrypt eventually          *)
(* completes, for every number of files and every pool size W >= 1.         *)
(***************************************************************************)
C35_DecryptDriverTerminates == <>(rd_pc = "done")

=========================================================================
